---------------------------- MODULE Spec2Model ----------------------------
(***************************************************************************)
(* Verification-session engine of tg-hamster (package bot).                *)
(*                                                                         *)
(* The model follows the newest variant of the bot, the one the tests in   *)
(* bot_test.go compile against: src/internal/bot/timeout.go lines 76-185   *)
(* (Timeouts) and 831-1716 (Bot).  Every goroutine is a task with a        *)
(* program counter; one action is one critical section or one external     *)
(* call of the source.                                                     *)
(***************************************************************************)
EXTENDS Integers, Sequences, FiniteSets, TLC

(***************************************************************************)
(* Bounds of the model.                                                    *)
(***************************************************************************)
MaxSessions == 2     \* member-joined events handled
MaxTaps     == 2     \* callback (tap) handler goroutines
MaxTasks    == 3     \* Spec: sessions and tap handlers together
OpenSessions == 1    \* SpecOpen: member-joined events handled
OpenTaps    == 1     \* SpecOpen: tap handler goroutines
MaxTimeout  == 1     \* largest countdown length held by the timeout table
MaxUserMsgs == 1     \* plain text updates received
MaxElapse   == 1     \* number of clock jumps
MaxSendFail == 1     \* sends that fail after all their retries
MaxSets     == 2     \* SpecTable: calls of Timeouts.Set
MaxCommands == 2     \* SpecCommand: /timeout commands handled
MaxFaults   == 1     \* SpecFault: panics raised in handlers
MaxUpdates  == 2     \* SpecLock: updates the loop dispatches
MaxSweeps   == 1     \* SpecLock: runs of CleanupOldMessages
MaxPolls    == 3     \* SpecShutdown: calls of safeGetUpdates
MaxBarTotal == 10    \* SpecBar: largest small countdown length
UnitBits    == 56    \* SpecBar: the large arguments are multiples of 2^UnitBits

(***************************************************************************)
(* Program constants.                                                      *)
(***************************************************************************)
RetryLimit   == 3    \* retryHTTP: for i := 0; i < 3; i++
RetentionSec == 60   \* cacheMessage / CleanupOldMessages window
AdminTTLSec  == 1800 \* isAdmin: expiresAt = now + 30 minutes
BarCells     == 8    \* progressBar: const n = 8
IntBits      == 64   \* the width of int: the binary is built for amd64

Chats    == {1, 2}
Users    == {1, 2}
Sessions == 1..MaxSessions
Taps     == 1..MaxTaps
\* A token is the random string of randString(8); the model names the token
\* drawn for session s by s, and 0 is a string that is no session's token.
Tokens   == 0..MaxSessions
\* The clock moves to the edge of the retention window or just past it.
ClockJumps == {RetentionSec, RetentionSec + 1}

\* progressData (timeout.go 938-945).  stopChan is identified with the
\* session that made the channel.
NoP == [stopChan |-> 0, token |-> 0, userID |-> 0, greetMsgID |-> 0, msgProgressID |-> 0]

VARIABLES
  nextMsgID,      \* platform: next message_id of each chat (ids are per chat)
  timeoutsData,   \* Timeouts.Data
  progressStore,  \* Bot.progressStore.data : greetMsgID -> progressData
  activeTokens,   \* Bot.activeTokens : userID -> token
  userMessages,   \* Bot.userMessages : userID -> list of cachedMessage
  closes,         \* number of close() calls made on each session's stopChan
  now,            \* wall clock, seconds
  elapsed,        \* clock jumps taken
  sendFails,      \* failed sends so far
  sn,             \* sessions created so far
  sess,           \* per session: the join handler / countdown goroutine
  tn,             \* tap handlers spawned so far
  tap,            \* per tap handler goroutine
  un,             \* text updates received
  welcomes,       \* welcome messages sent, per validated session
  banCalls,       \* retryHTTP(ban) invocations, per session
  banAttempts,    \* ban attempts made inside them, per session
  deletes,        \* bag of <<chat, msgID>> passed to safeDeleteMessage
  edits,          \* set of <<chat, msgID, kind>> passed to safeEditMessage
  timeoutFile,    \* content of the timeouts file (b.timeoutFile)
  tset,           \* per caller of Timeouts.Set: its position and locals
  setn,           \* Timeouts.Set calls started
  rt,             \* the last Save and the Load of its file into a fresh table
  loadErr,        \* what Timeouts.Load returned ("none" before the call)
  tcmd,           \* per /timeout command: its handler goroutine
  cmdn,           \* /timeout commands received
  adminCache,     \* Bot.adminCache : <<chat, user>> -> adminCacheEntry
  alive,          \* the process runs (FALSE after a fatal error or a panic
                  \* that no deferred recover caught)
  retry,          \* one call of retryHTTP: its loop variables and its result
  bar,            \* one countdown's calls of progressBar: arguments and result
  held,           \* the three mutexes of Bot: the goroutine holding each, or -1
  gor,            \* goroutines by the lock operations and calls still ahead of them
  poll            \* main, the polling loop and the sweep goroutine around shutdown

vars == <<nextMsgID, timeoutsData, progressStore, activeTokens, userMessages,
          closes, now, elapsed, sendFails, sn, sess, tn, tap, un, welcomes, banCalls,
          banAttempts, deletes, edits, timeoutFile, tset, setn, rt, loadErr,
          tcmd, cmdn, adminCache, alive, retry, bar, held, gor, poll>>

platformVars == <<nextMsgID, now, elapsed, sendFails>>
\* The timeout table and what only its own operations touch.
tableVars    == <<timeoutFile, tset, setn, rt, loadErr>>
\* The /timeout handlers and the administrator cache.
commandVars  == <<tcmd, cmdn, adminCache>>
\* What no handler of the session engine and no table operation writes.
\* The lock-level view of the goroutines.
loopVars     == <<held, gor, poll>>
restVars     == <<alive, retry, bar, loopVars>>
configVars   == <<timeoutsData, tableVars, commandVars, restVars>>
effectVars   == <<welcomes, banCalls, banAttempts, deletes, edits>>

(***************************************************************************)
(* Helpers on maps and bags.                                               *)
(***************************************************************************)
MapPut(m, k, v) == [x \in DOMAIN m \cup {k} |-> IF x = k THEN v ELSE m[x]]
\* A delete that leaves the map as it is.
MapKeep(m, k)   == m
MapDel(m, k)    == [x \in DOMAIN m \ {k} |-> m[x]]
MapGet(m, k, d) == IF k \in DOMAIN m THEN m[k] ELSE d
BagAdd(b, x)    == MapPut(b, x, MapGet(b, x, 0) + 1)
BagCount(b, x)  == MapGet(b, x, 0)

(***************************************************************************)
(* Timeouts.Get (timeout.go 150-157).                                      *)
(***************************************************************************)
DefaultTimeoutSec == 60
MinTimeoutSec     == 5
MaxTimeoutSec     == 600
TimeoutsGet(data, chatID) == IF chatID \in DOMAIN data THEN data[chatID] ELSE DefaultTimeoutSec

\* Chat ids the table is driven with (group chats have negative ids), and
\* the arguments Set is called with.
TableChats == Chats \cup {-12}
SetArgs    == {4, 5, 42, 600, 601, 999}

\* A Set that stores its argument as it is.
clampNone(seconds) == seconds

\* Timeouts.Set (timeout.go 160-166): the two ifs before the lock.
clampSeconds(seconds) ==
  LET low == IF seconds < MinTimeoutSec THEN MinTimeoutSec ELSE seconds
  IN  IF low > MaxTimeoutSec THEN MaxTimeoutSec ELSE low

\* A write that folds the new value into the stored one.
tableWriteFolded(data, chatID, seconds) ==
  MapPut(data, chatID, MapGet(data, chatID, 0) + seconds)

\* Timeouts.Set (timeout.go 167-169): t.Data[chatID] = seconds, under mu.
tableWrite(data, chatID, seconds) == MapPut(data, chatID, seconds)

(***************************************************************************)
(* The timeouts file (timeout.go 105-147).  json.MarshalIndent writes the  *)
(* map as an object whose member names are the chat ids in decimal and     *)
(* whose values are decimal numbers; json.Unmarshal reads them back.       *)
(***************************************************************************)
Digits == <<"0", "1", "2", "3", "4", "5", "6", "7", "8", "9">>

RECURSIVE natText(_)
natText(n) ==
  IF n < 10 THEN <<Digits[n + 1]>>
  ELSE natText(n \div 10) \o <<Digits[(n % 10) + 1]>>

\* A writer that drops the sign.
intTextNoSign(n) == natText(IF n < 0 THEN -n ELSE n)

\* The decimal text of an integer (strconv.FormatInt as encoding/json uses it).
intText(n) == IF n < 0 THEN <<"-">> \o natText(-n) ELSE natText(n)

digitValue(ch) == CHOOSE d \in 0..9 : Digits[d + 1] = ch

RECURSIVE textNat(_)
textNat(t) ==
  IF t = <<>> THEN 0
  ELSE 10 * textNat(SubSeq(t, 1, Len(t) - 1)) + digitValue(t[Len(t)])

\* The integer of a decimal text (strconv.ParseInt as encoding/json uses it).
textInt(t) == IF t[1] = "-" THEN -textNat(Tail(t)) ELSE textNat(t)

\* A file: missing, unreadable, of length 0, not JSON, or an object given
\* by its members <<name text, value text>>.
FileOf(kind, members) == [kind |-> kind, members |-> members]

\* A Save that writes an empty object.
SaveNothing(data) == FileOf("object", {})

\* Save (timeout.go 132-147), the content written.
SaveFile(data) ==
  FileOf("object", {<<intText(c), intText(data[c])>> : c \in DOMAIN data})

\* Load (timeout.go 105-129): the table afterwards and the error returned.
\* A missing file and an empty file are no error and leave the table as it
\* is; Unmarshal writes the members into the table it is given.
Load(data, file) ==
  IF file.kind \in {"missing", "empty"} THEN [data |-> data, err |-> "nil"]
  ELSE IF file.kind \in {"unreadable", "garbage"} THEN [data |-> data, err |-> "error"]
  ELSE LET keys   == {textInt(m[1]) : m \in file.members}
           val(k) == textInt((CHOOSE m \in file.members : textInt(m[1]) = k)[2])
       IN  [data |-> [c \in DOMAIN data \cup keys |-> IF c \in keys THEN val(c) ELSE data[c]],
            err  |-> "nil"]

\* Files found at startup: none, an empty one, a broken one, and files
\* written by hand or by another version of the program.
InitialFiles ==
  { FileOf("missing", {}), FileOf("unreadable", {}), FileOf("empty", {}),
    FileOf("garbage", {}),
    SaveFile((1 :> 1)), SaveFile((-12 :> 42) @@ (2 :> 1000)) }

(***************************************************************************)
(* retryHTTP (timeout.go 1462-1479).  outs[i] is what attempt i meets:     *)
(* "ok", "err" (fn returned an error) or "429" (status 429).               *)
(***************************************************************************)
Outcomes == {"ok", "err", "429"}
OutcomeSeqs == [1..RetryLimit -> Outcomes]

RECURSIVE retryFrom(_, _)
\* <<attempts made, result>> of the loop from attempt i on; lastErr is carried
\* in the recursion result.
retryFrom(outs, i) ==
  IF i > RetryLimit THEN <<0, "nil-lastErr">>
  ELSE IF outs[i] = "ok" THEN <<1, "nil">>
  ELSE LET rest == retryFrom(outs, i + 1)
           mine == IF outs[i] = "429" THEN "429 rate limit" ELSE "error"
       IN  <<1 + rest[1], IF rest[2] = "nil-lastErr" THEN mine ELSE rest[2]>>

retryHTTP(outs) == retryFrom(outs, 1)

\* One call of retryHTTP taken step by step.  outs[k] is what fn returns on
\* attempt k: a response ("ok"), a response with status 429, or one of two
\* errors; i is the loop variable, slept the milliseconds spent in Sleep.
FnResults == {"ok", "429", "timeout", "refused"}
NoRetry == [pc |-> "idle", outs |-> <<>>, i |-> 0, calls |-> 0, lastErr |-> "nil",
            slept |-> 0, ret |-> "none"]

\* A loop that takes a 429 response for a success.
attemptPassesOn429(r) == r \in {"ok", "429"}

\* 1466-1476: the attempt passes when fn returned no error and the status
\* is not 429.
attemptPasses(r) == r = "ok"

\* A loop that keeps the first error.
firstErr(lastErr, r) ==
  IF lastErr # "nil" THEN lastErr ELSE IF r = "429" THEN "429 rate limit" ELSE r

\* 1467, 1473: lastErr = err, or lastErr = fmt.Errorf("429 rate limit").
nextLastErr(lastErr, r) == IF r = "429" THEN "429 rate limit" ELSE r

\* 1468, 1472: the Sleep before the next round, in milliseconds.
backoffMs(i, r) == IF r = "429" THEN 2000 ELSE (i + 1) * 500

\* Every <<attempts, result>> a call through retryHTTP can end with.
RetryResults == {retryHTTP(outs) : outs \in OutcomeSeqs}

(***************************************************************************)
(* progressBar (timeout.go 1681-1692).  Its arguments are ints of IntBits  *)
(* bits.  An argument is given as a mantissa and a unit: the unit 0 is for *)
(* the small values, which are the mantissa itself; the unit UnitBits is   *)
(* for the multiples of 2^UnitBits, mantissa * 2^UnitBits, whose           *)
(* arithmetic in IntBits bits is the arithmetic of the mantissa in         *)
(* IntBits - UnitBits bits.  Both arguments of a call have the same unit.  *)
(***************************************************************************)
MantissaMod == 2 ^ (IntBits - UnitBits)
\* Two's complement wrap of a mantissa.
wrapInt(unit, x) ==
  IF unit = 0 THEN x
  ELSE ((x + MantissaMod \div 2) % MantissaMod) - MantissaMod \div 2

\* Go's integer division: the quotient is truncated toward zero.
quo(a, b) ==
  LET abs(x) == IF x < 0 THEN -x ELSE x
      q      == abs(a) \div abs(b)
  IN  IF (a < 0) # (b < 0) THEN -q ELSE q

\* The bar, by its numbers of black and green cells; strings.Repeat panics
\* on a negative count.
BarOf(black, green) ==
  IF black < 0 \/ green < 0
  THEN [panic |-> TRUE, black |-> 0, green |-> 0]
  ELSE [panic |-> FALSE, black |-> black, green |-> green]

\* 1687-1689: if filled > n { filled = n }.
capFilled(filled) == IF filled > BarCells THEN BarCells ELSE filled

progressBar(unit, total, remaining) ==
  IF total <= 0 THEN BarOf(BarCells, 0)
  ELSE LET filled == capFilled(quo(wrapInt(unit, remaining * BarCells), total))
       IN  BarOf(BarCells - filled, filled)

NoBar == [pc |-> "idle", unit |-> 0, total |-> 0, remaining |-> 0,
          out |-> BarOf(0, 0), prev |-> BarCells]

\* A recorder that finds no user pending.
isUserPendingNever(store, userID) == FALSE

(***************************************************************************)
(* isUserPending (timeout.go 1429-1439).                                   *)
(***************************************************************************)
isUserPending(store, userID) == \E k \in DOMAIN store : store[k].userID = userID

(***************************************************************************)
(* cachedMessage (timeout.go 893-898) and the retention cache operations.  *)
(***************************************************************************)
CachedMessage(id, chat, ts, isBot, isPending) ==
  [id |-> id, chat |-> chat, ts |-> ts, isBot |-> isBot, isPending |-> isPending]

\* A push at the front of the list.
pushFront(um, userID, cm) ==
  MapPut(um, userID, <<cm>> \o MapGet(um, userID, <<>>))

\* list.PushBack on b.userMessages[userID], creating the bucket when absent
\* (timeout.go 1110-1120, 1136-1146).
pushBack(um, userID, cm) ==
  MapPut(um, userID, Append(MapGet(um, userID, <<>>), cm))

\* cacheMessage (timeout.go 1315-1355) for a message with a sender.
cacheMessage(um, store, t, userID, id, chat, isBot) ==
  LET cm     == CachedMessage(id, chat, t, isBot, (~isBot) /\ isUserPending(store, userID))
      pushed == Append(MapGet(um, userID, <<>>), cm)
      cutoff == t - RetentionSec
      kept   == SelectSeq(pushed, LAMBDA m : ~(m.ts < cutoff))
  IN  IF Len(kept) = 0 THEN MapDel(um, userID) ELSE MapPut(um, userID, kept)

\* deletePendingMessages' filter (timeout.go 1384-1388).
pendingFilter(m) == m.isBot \/ m.isPending

\* deleteUserMessagesFiltered (timeout.go 1360-1382): the entries handed to
\* safeDeleteMessage, in list order, and the cache afterwards.
deletedByFilter(um, chatID, userID) ==
  IF userID \in DOMAIN um
  THEN SelectSeq(um[userID], LAMBDA m : m.chat = chatID /\ pendingFilter(m))
  ELSE <<>>

cacheAfterFilter(um, chatID, userID) ==
  IF userID \notin DOMAIN um THEN um
  ELSE LET kept == SelectSeq(um[userID], LAMBDA m : ~(m.chat = chatID /\ pendingFilter(m)))
       IN  IF Len(kept) = 0 THEN MapDel(um, userID) ELSE MapPut(um, userID, kept)

\* A sweep that also evicts the entries exactly RetentionSec old.
sweepAtEdge(um, t) ==
  LET kept(u) == SelectSeq(um[u], LAMBDA m : ~(t - m.ts >= RetentionSec))
  IN  [u \in {v \in DOMAIN um : kept(v) # <<>>} |-> kept(u)]

\* CleanupOldMessages (timeout.go 1412-1426): removeIf on every bucket with
\* now.Sub(timestamp) > 60s, and delete of the buckets left empty.
sweep(um, t) ==
  LET kept(u) == SelectSeq(um[u], LAMBDA m : ~(t - m.ts > RetentionSec))
  IN  [u \in {v \in DOMAIN um : kept(v) # <<>>} |-> kept(u)]

RECURSIVE BagAddSeq(_, _, _)
BagAddSeq(b, chatID, ms) ==
  IF ms = <<>> THEN b
  ELSE BagAddSeq(BagAdd(b, <<chatID, Head(ms).id>>), chatID, Tail(ms))

\* stopProgressbar leaving the countdown message in the chat.
stopDeletesPromptOnly(b, chatID, p) ==
  IF p.greetMsgID # 0 THEN BagAdd(b, <<chatID, p.greetMsgID>>) ELSE b

\* safeDeleteMessage calls of stopProgressbar (timeout.go 1245-1251).
stopDeletes(b, chatID, p) ==
  LET b1 == IF p.greetMsgID # 0 THEN BagAdd(b, <<chatID, p.greetMsgID>>) ELSE b
  IN  IF p.msgProgressID # 0 THEN BagAdd(b1, <<chatID, p.msgProgressID>>) ELSE b1

(***************************************************************************)
(* The goroutines by their lock operations and external calls.  A          *)
(* goroutine is the sequence of the operations still ahead of it: lock and *)
(* unlock of one of Bot's three mutexes, a call through retryHTTP, and go. *)
(* A goroutine whose first operation is a lock is at the Lock() call; one  *)
(* whose first operation is a call is inside that call.                    *)
(***************************************************************************)
Locks == {"muMessages", "progressStore.mu", "muTokens"}
Free  == -1

Lk(l)   == <<[op |-> "lock", arg |-> l]>>
Un(l)   == <<[op |-> "unlock", arg |-> l]>>
Call(k) == <<[op |-> "call", arg |-> k]>>
Go(u)   == <<[op |-> "go", arg |-> u]>>

\* The updates getUpdates delivers: a member joined (the session then
\* expires or is confirmed), a tap (let through or dropped), a text message
\* of a user, of a bot, or without a sender.
UpdateKinds == {"join-expires", "join-confirmed", "tap-accepted", "tap-dropped",
                "text-user", "text-bot", "text-nofrom"}

\* isUserPending (1429-1439).
isUserPendingOps == Lk("progressStore.mu") \o Un("progressStore.mu")

\* cacheMessage (1315-1355): nothing for an update without message or
\* sender (a tap has no message); isUserPending is called inside muMessages
\* for a sender that is not a bot.
cacheMessageOps(u) ==
  IF u \in {"tap-accepted", "tap-dropped", "text-nofrom"} THEN <<>>
  ELSE Lk("muMessages") \o (IF u = "text-bot" THEN <<>> ELSE isUserPendingOps)
       \o Un("muMessages")

\* removeActiveToken (1256-1260).
removeActiveTokenOps == Lk("muTokens") \o Un("muTokens")

\* A stopProgressbar that releases the user's messages inside the store lock.
stopProgressbarReleasingOps ==
  Lk("progressStore.mu") \o Lk("muMessages") \o Un("muMessages")
  \o Un("progressStore.mu") \o Call("delete") \o Call("delete") \o removeActiveTokenOps

\* stopProgressbar (1230-1254) that finds the record.
stopProgressbarOps ==
  Lk("progressStore.mu") \o Un("progressStore.mu")
  \o Call("delete") \o Call("delete") \o removeActiveTokenOps

\* deletePendingMessages -> deleteUserMessagesFiltered (1360-1388) on the
\* bucket of an expired session: the prompt and the countdown message are
\* deleted through safeDeleteMessage inside muMessages.
deletePendingMessagesOps ==
  Lk("muMessages") \o Call("delete") \o Call("delete") \o Un("muMessages")

\* handleJoinMessage (1104-1123) and the startProgressbar it starts
\* (1133-1223), one tick long; a confirmed session returns at 1190.
joinOps(u) ==
  Call("send") \o Lk("muMessages") \o Un("muMessages")
  \o Call("send") \o Lk("muMessages") \o Un("muMessages")
  \o Lk("muTokens") \o Un("muTokens")
  \o Lk("progressStore.mu") \o Un("progressStore.mu")
  \o (IF u = "join-expires" THEN Call("edit") ELSE <<>>)
  \o Lk("progressStore.mu") \o Un("progressStore.mu")
  \o (IF u = "join-expires"
      THEN stopProgressbarOps \o Call("ban") \o deletePendingMessagesOps
      ELSE <<>>)

\* handleCallback (1279-1305).
handleCallbackOps(u) ==
  Lk("progressStore.mu") \o Un("progressStore.mu")
  \o (IF u = "tap-accepted" THEN stopProgressbarOps \o Call("send") ELSE <<>>)

\* handleUpdate (1015-1032) in the goroutine of the update.
handleUpdateOps(u) ==
  IF u \in {"join-expires", "join-confirmed"} THEN joinOps(u)
  ELSE IF u \in {"tap-accepted", "tap-dropped"} THEN handleCallbackOps(u)
  ELSE <<>>

\* CleanupOldMessages (1412-1426).
CleanupOldMessagesOps == Lk("muMessages") \o Un("muMessages")

\* main (part_001 30-63), StartWithContext and the sweep goroutine.  Time is
\* counted in half seconds: timer is what is left of the loop's Sleep, grace
\* what is left of main's Sleep after the context is cancelled; polls counts
\* the calls of safeGetUpdates and i is the loop variable of its retryHTTP.
NoPoll == [ctx |-> "live", loop |-> "select", i |-> 0, timer |-> 0, polls |-> 0,
           sweep |-> "waiting", main |-> "waiting", grace |-> 0]

\* Goroutine 0 is the update loop, 1..MaxUpdates the goroutines it starts,
\* the last one the sweep goroutine of main.
LoopG      == 0
SweepG     == MaxUpdates + 1
Goroutines == 0..SweepG
NoGor      == [kind |-> "none", ops |-> <<>>, n |-> 0]

(***************************************************************************)
(* Initial state: NewBot (timeout.go 952-967).  The timeout table is what  *)
(* Load read from the file; Load stores the file's values as they are.     *)
(***************************************************************************)
\* banErr is what retryHTTP returned to the ban call ("none" before it),
\* released records that the countdown went through deletePendingMessages,
\* and ticks counts the ticker events the loop has taken.
NoSess == [pc |-> "none", chat |-> 0, user |-> 0, greet |-> 0, prog |-> 0,
           timeout |-> 0, remaining |-> 0, p |-> NoP, sp |-> NoP, ban |-> FALSE,
           banErr |-> "none", released |-> FALSE, ticks |-> 0]
\* rem records the countdown's remaining seconds at the moment the handler
\* closed the stop channel.
NoTap  == [pc |-> "none", chat |-> 0, from |-> 0, p |-> NoP, sp |-> NoP,
           won |-> FALSE, rem |-> 0, sent |-> 0, wid |-> 0, sentAt |-> 0, timer |-> "none"]

\* A caller of Timeouts.Set, and the Save / fresh Load pair.
NoSet == [pc |-> "none", chat |-> 0, arg |-> 0, seconds |-> 0]
NoRT  == [saved |-> <<>>, saveErr |-> "none", loaded |-> <<>>, loadErr |-> "none"]

\* The bot after NewBot: the table holds what Load read from the file.
InitConfig ==
  /\ timeoutsData \in [Chats -> 1..MaxTimeout]
  /\ timeoutFile = SaveFile(timeoutsData)
  /\ loadErr = "nil"

\* A table just made by NewTimeouts (timeout.go 98-102), Load not yet called.
InitTable ==
  /\ timeoutsData = <<>>
  /\ timeoutFile \in InitialFiles
  /\ loadErr = "none"

\* A /timeout handler goroutine: msg is the id of the command message,
\* status what isAdmin classified, reply the id of the bot's answer, saveErr
\* what Save returned to it ("none" before the call).  Of its isAdmin call:
\* seen is what the read of the cache gave (entry, ok), at the time of the
\* read, cached whether the answer came from the cache, lookup how the
\* getChatMember call through retryHTTP ended ("none": not made), exp the
\* expiry of the entry it stored (0: it stored none).
NoEntry == [ok |-> FALSE, status |-> "", expiresAt |-> 0]
NoCmd == [pc |-> "none", chat |-> 0, from |-> 0, arg |-> <<>>, msg |-> 0,
          status |-> "", reply |-> 0, sentAt |-> 0, timer |-> "none",
          saveErr |-> "none", seen |-> NoEntry, at |-> 0, cached |-> FALSE,
          lookup |-> "none", exp |-> 0]

InitRest ==
  /\ nextMsgID = [c \in Chats |-> 1]
  /\ tcmd = [t \in 1..MaxCommands |-> NoCmd]
  /\ cmdn = 0
  /\ adminCache = <<>>
  /\ alive = TRUE
  /\ retry = NoRetry
  /\ bar = NoBar
  /\ poll = NoPoll
  /\ held = [l \in Locks |-> Free]
  /\ gor = [g \in Goroutines |->
             IF g = LoopG THEN [NoGor EXCEPT !.kind = "loop"]
             ELSE IF g = SweepG THEN [NoGor EXCEPT !.kind = "sweep"] ELSE NoGor]
  /\ tset = [t \in 1..MaxSets |-> NoSet]
  /\ setn = 0
  /\ rt = NoRT
  /\ progressStore = <<>>
  /\ activeTokens = <<>>
  /\ userMessages = <<>>
  /\ closes = [s \in Sessions |-> 0]
  /\ now = 0
  /\ elapsed = 0
  /\ sendFails = 0
  /\ sn = 0
  /\ sess = [s \in Sessions |-> NoSess]
  /\ tn = 0
  /\ tap = [h \in Taps |-> NoTap]
  /\ un = 0
  /\ welcomes = [s \in Sessions |-> 0]
  /\ banCalls = [s \in Sessions |-> 0]
  /\ banAttempts = [s \in Sessions |-> 0]
  /\ deletes = <<>>
  /\ edits = {}

Init == InitConfig /\ InitRest


(***************************************************************************)
(* Update loop, member-joined update (timeout.go 996-1007, 1015-1026):     *)
(* cacheMessage(u) runs in the loop, then the handler goroutine is         *)
(* started.  The join message is sent by the joining user.                 *)
(***************************************************************************)
UpdateJoin(c, u) ==
  /\ alive
  /\ sn < MaxSessions
  /\ LET id == nextMsgID[c] IN
       /\ nextMsgID' = [nextMsgID EXCEPT ![c] = id + 1]
       /\ userMessages' = cacheMessage(userMessages, progressStore, now, u, id, c, FALSE)
  /\ sn' = sn + 1
  /\ sess' = [sess EXCEPT ![sn + 1] = [NoSess EXCEPT !.pc = "greet", !.chat = c, !.user = u]]
  /\ UNCHANGED <<configVars, progressStore, activeTokens, closes, now, elapsed,
                 sendFails, tn, tap, un, effectVars>>

\* A send through safeSendSilent / safeSendSilentWithMarkup (timeout.go
\* 1520-1579): the platform's next id of the chat, or 0 when the call failed.
SendOutcomes     == {TRUE} \cup (IF sendFails < MaxSendFail THEN {FALSE} ELSE {})
SentID(c, ok)    == IF ok THEN nextMsgID[c] ELSE 0
AfterSend(c, ok) ==
  /\ nextMsgID' = IF ok THEN [nextMsgID EXCEPT ![c] = @ + 1] ELSE nextMsgID
  /\ sendFails' = IF ok THEN sendFails ELSE sendFails + 1

(***************************************************************************)
(* handleJoinMessage (timeout.go 1082-1125), one new member: the token is  *)
(* drawn, the prompt is sent and cached as a bot message flagged pending,  *)
(* and startProgressbar is started as a goroutine.                         *)
(***************************************************************************)
handleJoinMessage(s) ==
  /\ alive
  /\ sess[s].pc = "greet"
  /\ \E ok \in SendOutcomes :
       /\ sess' = [sess EXCEPT ![s].greet = SentID(sess[s].chat, ok), ![s].pc = "progress"]
       /\ userMessages' = pushBack(userMessages, sess[s].user,
               CachedMessage(SentID(sess[s].chat, ok), sess[s].chat, now, TRUE, TRUE))
       /\ AfterSend(sess[s].chat, ok)
  /\ UNCHANGED <<configVars, progressStore, activeTokens, closes,
                 now, elapsed, sn, tn, tap, un, effectVars>>

(***************************************************************************)
(* startProgressbar (timeout.go 1131-1224).                                *)
(***************************************************************************)
\* 1133-1153: the countdown message is sent and cached as a bot message, not
\* pending; b.activeTokens[userID] = token.
StartSendProgress(s) ==
  /\ alive
  /\ sess[s].pc = "progress"
  /\ \E ok \in SendOutcomes :
       /\ sess' = [sess EXCEPT ![s].prog = SentID(sess[s].chat, ok), ![s].pc = "register"]
       /\ userMessages' = pushBack(userMessages, sess[s].user,
               CachedMessage(SentID(sess[s].chat, ok), sess[s].chat, now, TRUE, FALSE))
       /\ AfterSend(sess[s].chat, ok)
  /\ activeTokens' = MapPut(activeTokens, sess[s].user, s)
  /\ UNCHANGED <<configVars, progressStore, closes, now, elapsed,
                 sn, tn, tap, un, effectVars>>

\* The record startProgressbar stores for session s.
SessionData(s) ==
  [stopChan |-> s, token |-> s, userID |-> sess[s].user,
   greetMsgID |-> sess[s].greet, msgProgressID |-> sess[s].prog]

\* 1155-1171: b.progressStore.data[greetMsgID] = progressData{...};
\* timeout := b.timeouts.Get(chatID); remaining := timeout.
StartRegister(s) ==
  /\ alive
  /\ sess[s].pc = "register"
  /\ progressStore' = MapPut(progressStore, sess[s].greet, SessionData(s))
  /\ LET t == TimeoutsGet(timeoutsData, sess[s].chat) IN
       sess' = [sess EXCEPT ![s].timeout = t, ![s].remaining = t, ![s].pc = "loop"]
  /\ UNCHANGED <<platformVars, configVars, activeTokens, userMessages, closes,
                 sn, tn, tap, un, effectVars>>

\* 1175-1176: case <-stop: remaining = 0.
LoopStop(s) ==
  /\ alive
  /\ sess[s].pc = "loop"
  /\ sess[s].remaining > 0
  /\ closes[s] > 0
  /\ sess' = [sess EXCEPT ![s].remaining = 0]
  /\ UNCHANGED <<platformVars, configVars, progressStore, activeTokens, userMessages,
                 closes, sn, tn, tap, un, effectVars>>

\* 1177-1181: case <-ticker.C: the countdown message is edited, remaining--.
LoopTick(s) ==
  /\ alive
  /\ sess[s].pc = "loop"
  /\ sess[s].remaining > 0
  /\ edits' = edits \cup {<<sess[s].chat, sess[s].prog, "progress">>}
  /\ sess' = [sess EXCEPT ![s].remaining = @ - 1, ![s].ticks = @ + 1]
  /\ UNCHANGED <<platformVars, configVars, progressStore, activeTokens, userMessages,
                 closes, sn, tn, tap, un, welcomes, banCalls, banAttempts, deletes>>

\* 1173, 1185-1191: the loop is left, the record is read back; return when absent.
StartLookup(s) ==
  /\ alive
  /\ sess[s].pc = "loop"
  /\ sess[s].remaining <= 0
  /\ IF sess[s].greet \in DOMAIN progressStore
     THEN sess' = [sess EXCEPT ![s].p = progressStore[sess[s].greet], ![s].pc = "select"]
     ELSE sess' = [sess EXCEPT ![s].pc = "done"]
  /\ UNCHANGED <<platformVars, configVars, progressStore, activeTokens, userMessages,
                 closes, sn, tn, tap, un, effectVars>>

\* 1194-1200: select on p.stopChan; both branches call stopProgressbar, only
\* the default branch goes on to ban.
StartSelect(s) ==
  /\ alive
  /\ sess[s].pc = "select"
  /\ sess' = [sess EXCEPT ![s].ban = (closes[sess[s].p.stopChan] = 0), ![s].pc = "stop"]
  /\ UNCHANGED <<platformVars, configVars, progressStore, activeTokens, userMessages,
                 closes, sn, tn, tap, un, effectVars>>

(***************************************************************************)
(* stopProgressbar (timeout.go 1230-1254), as called by the countdown      *)
(* goroutine with its own greetMsgID (1197, 1200).                         *)
(***************************************************************************)
AfterStop(s) == IF sess[s].ban THEN "ban" ELSE "done"

\* 1231-1243: under the store lock the record is read; when present its
\* stopChan is closed (stopOnce lives in the local copy p, so Do always runs
\* the close) and the record is deleted.
StartStopLock(s) ==
  /\ alive
  /\ sess[s].pc = "stop"
  /\ IF sess[s].greet \in DOMAIN progressStore
     THEN LET p == progressStore[sess[s].greet] IN
            /\ closes' = [closes EXCEPT ![p.stopChan] = @ + 1]
            /\ progressStore' = MapDel(progressStore, sess[s].greet)
            /\ sess' = [sess EXCEPT ![s].sp = p, ![s].pc = "stopDelete"]
     ELSE /\ sess' = [sess EXCEPT ![s].pc = AfterStop(s)]
          /\ UNCHANGED <<closes, progressStore>>
  /\ UNCHANGED <<platformVars, configVars, activeTokens, userMessages,
                 sn, tn, tap, un, effectVars>>

\* 1245-1253: the prompt and the countdown message are deleted, then
\* removeActiveToken(p.userID) (1256-1260).
StartStopDelete(s) ==
  /\ alive
  /\ sess[s].pc = "stopDelete"
  /\ deletes' = stopDeletes(deletes, sess[s].chat, sess[s].sp)
  /\ activeTokens' = MapDel(activeTokens, sess[s].sp.userID)
  /\ sess' = [sess EXCEPT ![s].pc = AfterStop(s)]
  /\ UNCHANGED <<platformVars, configVars, progressStore, userMessages,
                 closes, sn, tn, tap, un, welcomes, banCalls, banAttempts, edits>>

\* The countdown returning when the ban call failed.
AfterBanReturnOnError(err) == IF err = "nil" THEN "delPending" ELSE "done"

\* 1204, 1222: the error of retryHTTP is dropped (_ =) and the countdown goes
\* on to deletePendingMessages.
AfterBan(err) == "delPending"

\* 1201-1221: the ban call, through retryHTTP.
StartBan(s) ==
  /\ alive
  /\ sess[s].pc = "ban"
  /\ \E r \in RetryResults :
       /\ banCalls' = [banCalls EXCEPT ![s] = @ + 1]
       /\ banAttempts' = [banAttempts EXCEPT ![s] = @ + r[1]]
       /\ sess' = [sess EXCEPT ![s].banErr = r[2], ![s].pc = AfterBan(r[2])]
  /\ UNCHANGED <<platformVars, configVars, progressStore, activeTokens, userMessages,
                 closes, sn, tn, tap, un, welcomes, deletes, edits>>

\* 1222: deletePendingMessages(chatID, userID), one critical section of
\* muMessages (1360-1382).
deletePendingMessages(s) ==
  /\ alive
  /\ sess[s].pc = "delPending"
  /\ deletes' = BagAddSeq(deletes, sess[s].chat,
                          deletedByFilter(userMessages, sess[s].chat, sess[s].user))
  /\ userMessages' = cacheAfterFilter(userMessages, sess[s].chat, sess[s].user)
  /\ sess' = [sess EXCEPT ![s].released = TRUE, ![s].pc = "done"]
  /\ UNCHANGED <<platformVars, configVars, progressStore, activeTokens,
                 closes, sn, tn, tap, un, welcomes, banCalls, banAttempts, edits>>

(***************************************************************************)
(* handleCallback (timeout.go 1266-1309).  A tap carries the chat and id   *)
(* of the tapped message, the tapping user, and the payload: its form      *)
(* ("click:<user>:<token>" or anything else), user id and token.           *)
(***************************************************************************)
\* 1279-1291: the record under the tapped message id, else any record whose
\* greetMsgID is that id.
CallbackFinds(store, m) ==
  IF m \in DOMAIN store THEN {store[m]}
  ELSE {store[k] : k \in {x \in DOMAIN store : store[x].greetMsgID = m}}

\* 1271-1274, 1297: the checks a tap must pass against the record found.
CallbackAccepts(p, from, form, puser, ptoken) ==
  /\ form = "click"
  /\ from = puser
  /\ p.token = ptoken

\* 1266-1299: the handler goroutine runs up to the call of stopProgressbar,
\* or returns without having changed anything.
handleCallback(c, m, from, form, puser, ptoken) ==
  \/ /\ alive
     /\ tn < MaxTaps
     /\ \E p \in CallbackFinds(progressStore, m) :
          /\ CallbackAccepts(p, from, form, puser, ptoken)
          /\ tap' = [tap EXCEPT ![tn + 1] = [NoTap EXCEPT !.pc = "stop", !.chat = c,
                                                         !.from = from, !.p = p]]
     /\ tn' = tn + 1
     /\ UNCHANGED <<platformVars, configVars, progressStore, activeTokens, userMessages,
                    closes, sn, sess, un, effectVars>>
  \/ /\ \/ CallbackFinds(progressStore, m) = {}
        \/ \E p \in CallbackFinds(progressStore, m) :
             ~CallbackAccepts(p, from, form, puser, ptoken)
     /\ UNCHANGED vars

\* 1302 -> 1231-1243: stopProgressbar(cb.Message.Chat.ID, p.greetMsgID).
TapStopLock(h) ==
  /\ alive
  /\ tap[h].pc = "stop"
  /\ IF tap[h].p.greetMsgID \in DOMAIN progressStore
     THEN LET p == progressStore[tap[h].p.greetMsgID] IN
            /\ closes' = [closes EXCEPT ![p.stopChan] = @ + 1]
            /\ progressStore' = MapDel(progressStore, tap[h].p.greetMsgID)
            /\ tap' = [tap EXCEPT ![h].sp = p, ![h].won = TRUE,
                                  ![h].rem = sess[p.stopChan].remaining,
                                  ![h].pc = "stopDelete"]
     ELSE /\ tap' = [tap EXCEPT ![h].pc = "welcome"]
          /\ UNCHANGED <<closes, progressStore>>
  /\ UNCHANGED <<platformVars, configVars, activeTokens, userMessages,
                 sn, sess, tn, un, effectVars>>

\* 1245-1253.
TapStopDelete(h) ==
  /\ alive
  /\ tap[h].pc = "stopDelete"
  /\ deletes' = stopDeletes(deletes, tap[h].chat, tap[h].sp)
  /\ activeTokens' = MapDel(activeTokens, tap[h].sp.userID)
  /\ tap' = [tap EXCEPT ![h].pc = "welcome"]
  /\ UNCHANGED <<platformVars, configVars, progressStore, userMessages,
                 closes, sn, sess, tn, un, welcomes, banCalls, banAttempts, edits>>

\* 1304-1308: the welcome message is sent and its deletion is scheduled.
TapWelcome(h) ==
  /\ alive
  /\ tap[h].pc = "welcome"
  /\ \E ok \in SendOutcomes :
       /\ tap' = [tap EXCEPT ![h].wid = SentID(tap[h].chat, ok), ![h].sent = @ + 1,
                             ![h].sentAt = now, ![h].timer = "armed", ![h].pc = "done"]
       /\ AfterSend(tap[h].chat, ok)
  /\ welcomes' = [welcomes EXCEPT ![tap[h].p.stopChan] = @ + 1]
  /\ UNCHANGED <<configVars, progressStore, activeTokens, userMessages, closes,
                 now, elapsed, sn, sess, tn, un, banCalls, banAttempts, deletes, edits>>

\* 1306-1308: the time.AfterFunc fires after 60 seconds and deletes the
\* welcome message.
WelcomeTimerFire(h) ==
  /\ alive
  /\ tap[h].timer = "armed"
  /\ now - tap[h].sentAt >= RetentionSec
  /\ deletes' = BagAdd(deletes, <<tap[h].chat, tap[h].wid>>)
  /\ tap' = [tap EXCEPT ![h].timer = "fired"]
  /\ UNCHANGED <<platformVars, configVars, progressStore, activeTokens, userMessages,
                 closes, sn, sess, tn, un, welcomes, banCalls, banAttempts, edits>>

(***************************************************************************)
(* Update loop, plain message update (timeout.go 996-998, 1015-1032):      *)
(* cacheMessage(u); handleUpdate does nothing with it.                     *)
(***************************************************************************)
UpdateText(c, u, isBot) ==
  /\ alive
  /\ un < MaxUserMsgs
  /\ un' = un + 1
  /\ LET id == nextMsgID[c] IN
       /\ nextMsgID' = [nextMsgID EXCEPT ![c] = id + 1]
       /\ userMessages' = cacheMessage(userMessages, progressStore, now, u, id, c, isBot)
  /\ UNCHANGED <<configVars, progressStore, activeTokens, closes, now, elapsed,
                 sendFails, sn, sess, tn, tap, effectVars>>

\* The sweep goroutine's tick (part_001 46-53): CleanupOldMessages.
CleanupOldMessages ==
  /\ alive
  /\ userMessages' = sweep(userMessages, now)
  /\ UNCHANGED <<platformVars, configVars, progressStore, activeTokens,
                 closes, sn, sess, tn, tap, un, effectVars>>

\* The wall clock moves on.
Elapse ==
  /\ elapsed < MaxElapse
  /\ elapsed' = elapsed + 1
  /\ \E d \in ClockJumps : now' = now + d
  /\ UNCHANGED <<nextMsgID, sendFails, configVars, progressStore, activeTokens,
                 userMessages, closes, sn, sess, tn, tap, un, effectVars>>

(***************************************************************************)
(* The system.  Chats and users are interchangeable, so the first member   *)
(* to join is user 1 in chat 1.                                            *)
(***************************************************************************)
JoinStep ==
  \E c \in Chats, u \in Users : (sn = 0 => (c = 1 /\ u = 1)) /\ UpdateJoin(c, u)

CountdownStep(s) ==
  \/ handleJoinMessage(s)
  \/ StartSendProgress(s) \/ StartRegister(s)
  \/ LoopStop(s) \/ LoopTick(s) \/ StartLookup(s) \/ StartSelect(s)
  \/ StartStopLock(s) \/ StartStopDelete(s)
  \/ StartBan(s) \/ deletePendingMessages(s)

TapStep(h) ==
  \/ TapStopLock(h) \/ TapStopDelete(h) \/ TapWelcome(h)

\* A tap as the platform delivers it: some user taps the button of a prompt
\* that was sent; the payload is the one handleJoinMessage put in the button
\* (timeout.go 1095-1098), the message is the prompt in its chat.
PlatformTap ==
  \E s \in Sessions, from \in Users :
    /\ sess[s].pc \notin {"none", "greet"}
    /\ sess[s].greet # 0
    /\ handleCallback(sess[s].chat, sess[s].greet, from, "click", sess[s].user, s)

\* A tap with any payload on any message id: the registered ids and one
\* that is not.
TappedIDs == DOMAIN progressStore \cup {nextMsgID[1] + nextMsgID[2]}

AnyTap ==
  \/ \E c \in Chats, m \in TappedIDs, from \in Users, puser \in Users, ptoken \in Tokens :
       handleCallback(c, m, from, "click", puser, ptoken)
  \/ \E c \in Chats, m \in TappedIDs, from \in Users :
       handleCallback(c, m, from, "other", from, 0)

TextStep == \E c \in Chats, u \in Users, isBot \in BOOLEAN : UpdateText(c, u, isBot)

\* The session engine under the taps the platform delivers, MaxTasks
\* goroutines in all.
EngineJoin == sn + tn < MaxTasks /\ JoinStep
EngineTap  == sn + tn < MaxTasks /\ PlatformTap

NextEngine ==
  \/ EngineJoin
  \/ \E s \in Sessions : CountdownStep(s)
  \/ EngineTap
  \/ \E h \in Taps : TapStep(h)

Spec == Init /\ [][NextEngine]_vars

\* One session in the open environment: taps with any payload, text updates,
\* the clock and the welcome timer.
OpenJoin == sn < OpenSessions /\ JoinStep
OpenTap  == tn < OpenTaps /\ AnyTap

Next ==
  \/ OpenJoin
  \/ \E s \in Sessions : CountdownStep(s)
  \/ OpenTap
  \/ \E h \in Taps : TapStep(h)
  \/ \E h \in Taps : WelcomeTimerFire(h)
  \/ TextStep
  \/ CleanupOldMessages
  \/ Elapse

SpecOpen == Init /\ [][Next]_vars


(***************************************************************************)
(* The timeout table driven through its own operations (timeout.go         *)
(* 98-177), as NewBot and the callers of Set, Delete, Save and Load do.    *)
(***************************************************************************)
engineVars == <<nextMsgID, now, elapsed, sendFails, progressStore, activeTokens,
                userMessages, closes, sn, sess, tn, tap, un, effectVars, commandVars,
                restVars>>

\* Load on the table just made (NewBot, timeout.go 952-967), one critical
\* section of mu.
TableLoad ==
  /\ loadErr = "none"
  /\ setn = 0
  /\ timeoutsData = <<>>
  /\ timeoutsData' = Load(timeoutsData, timeoutFile).data
  /\ loadErr' = Load(timeoutsData, timeoutFile).err
  /\ UNCHANGED <<timeoutFile, tset, setn, rt, engineVars>>

\* Set, up to the lock: the argument is clamped (160-166).
SetBegin(c, a) ==
  /\ setn < MaxSets
  /\ setn' = setn + 1
  /\ tset' = [tset EXCEPT ![setn + 1] =
                [pc |-> "write", chat |-> c, arg |-> a, seconds |-> clampSeconds(a)]]
  /\ UNCHANGED <<timeoutsData, timeoutFile, rt, loadErr, engineVars>>

\* Set, the critical section (167-169).
SetWrite(t) ==
  /\ tset[t].pc = "write"
  /\ timeoutsData' = tableWrite(timeoutsData, tset[t].chat, tset[t].seconds)
  /\ tset' = [tset EXCEPT ![t].pc = "done"]
  /\ UNCHANGED <<timeoutFile, setn, rt, loadErr, engineVars>>

\* Delete (173-177).
TableDelete(c) ==
  /\ timeoutsData' = MapDel(timeoutsData, c)
  /\ UNCHANGED <<tableVars, engineVars>>

\* Save (132-147), under the read lock.  os.WriteFile truncates the file
\* before it writes, so a failed write leaves the old file, an empty one
\* or a part of the new one.
TableSave ==
  /\ \/ /\ timeoutFile' = SaveFile(timeoutsData)
        /\ rt' = [NoRT EXCEPT !.saved = timeoutsData, !.saveErr = "nil"]
     \/ /\ timeoutFile' \in {timeoutFile, FileOf("empty", {}), FileOf("garbage", {})}
        /\ rt' = [NoRT EXCEPT !.saved = timeoutsData, !.saveErr = "error"]
  /\ UNCHANGED <<timeoutsData, tset, setn, loadErr, engineVars>>

\* Load of the saved file into a table just made (NewTimeouts then Load).
FreshLoad ==
  /\ rt.saveErr = "nil"
  /\ rt.loadErr = "none"
  /\ rt' = [rt EXCEPT !.loaded = Load(<<>>, timeoutFile).data,
                      !.loadErr = Load(<<>>, timeoutFile).err]
  /\ UNCHANGED <<timeoutsData, timeoutFile, tset, setn, loadErr, engineVars>>

NextTable ==
  \/ TableLoad
  \/ \E c \in TableChats, a \in SetArgs : SetBegin(c, a)
  \/ \E t \in 1..MaxSets : SetWrite(t)
  \/ \E c \in TableChats : TableDelete(c)
  \/ TableSave
  \/ FreshLoad

TableInit == InitTable /\ InitRest

SpecTable == TableInit /\ [][NextTable]_vars

(***************************************************************************)
(* The /timeout command (timeout.go 1015-1022, 1038-1076) and isAdmin      *)
(* (1638-1675).  handleUpdate runs handleTimeoutCommand in the update's    *)
(* goroutine and then deletes the command message.                         *)
(***************************************************************************)
sessionVars == <<progressStore, activeTokens, closes, sn, sess, tn, tap, un,
                 welcomes, banCalls, banAttempts, edits, restVars>>

\* The second field of the command text: none, not a number, and numbers
\* around the two limits, one of them written with a sign.
CommandArgs ==
  { <<>>, <<"a", "b">>, <<"+", "4", "2">>,
    intText(4), intText(5), intText(600), intText(601) }
Senders  == Users \cup {0}          \* 0: the message has no From
Statuses == {"creator", "administrator", "member"}

\* strconv.Atoi (1061): an optional sign and at least one digit.
atoiOk(t) ==
  LET body == IF t # <<>> /\ t[1] \in {"+", "-"} THEN Tail(t) ELSE t
  IN  body # <<>> /\ \A i \in 1..Len(body) : \E d \in 1..10 : Digits[d] = body[i]
atoi(t) == IF t[1] = "+" THEN textNat(Tail(t)) ELSE textInt(t)

\* A handler that takes every number.
commandAcceptsAnyNumber(arg) == arg # <<>> /\ atoiOk(arg)

\* 1053-1069: the argument is there, is a number and is within the limits.
commandAccepts(arg) ==
  /\ arg # <<>>
  /\ atoiOk(arg)
  /\ ~(atoi(arg) < 5 \/ atoi(arg) > 600)

\* 1640-1642, 1674: the classification of a status.
isAdminStatus(status) == status = "creator" \/ status = "administrator"

\* 996-998, 1015-1018: the update loop records the message and starts the
\* handler goroutine.
UpdateCommand(c, from, arg) ==
  /\ alive
  /\ cmdn < MaxCommands
  /\ cmdn' = cmdn + 1
  /\ LET id == nextMsgID[c] IN
       /\ nextMsgID' = [nextMsgID EXCEPT ![c] = id + 1]
       /\ userMessages' = IF from = 0 THEN userMessages
                          ELSE cacheMessage(userMessages, progressStore, now, from, id, c, FALSE)
       /\ tcmd' = [tcmd EXCEPT ![cmdn + 1] =
                     [NoCmd EXCEPT !.pc = "start", !.chat = c, !.from = from,
                                   !.arg = arg, !.msg = id]]
  /\ UNCHANGED <<now, elapsed, sendFails, timeoutsData, tableVars, adminCache,
                 sessionVars, welcomes, banCalls, banAttempts, deletes>>

\* The key of isAdmin's cache (1639) and the entry its store writes (1670-1673).
cacheKey(t)   == <<tcmd[t].chat, tcmd[t].from>>
newEntry(t)   == [ok |-> TRUE, status |-> tcmd[t].status, expiresAt |-> now + AdminTTLSec]

\* 1640: entry, ok := b.adminCache[key].
cacheRead(cache, key) ==
  IF key \in DOMAIN cache
  THEN [ok |-> TRUE, status |-> cache[key].status, expiresAt |-> cache[key].expiresAt]
  ELSE NoEntry

\* 1640: ok && time.Now().Before(entry.expiresAt).
cacheFresh(e, t) == e.ok /\ t < e.expiresAt

\* isAdmin takes no lock.  The handlers whose store into the map (1670) is
\* their next statement while handler t reads or writes the map:
storing(t) == tcmd[t].pc = "cache"
reading(t) == tcmd[t].pc = "start" /\ tcmd[t].from # 0
RacingStores(t) ==
  {t2 \in 1..MaxCommands \ {t} : storing(t2) /\ cacheKey(t2) = cacheKey(t)}

\* What the read at 1640 can give.  Without a store in flight it is the
\* map's entry.  A store of the same key running at the same time is a data
\* race: the read may come before it, after it, or copy the entry while it
\* is being written, each field from before or from after the store.
Observations(t) ==
  LET cur == cacheRead(adminCache, cacheKey(t))
  IN  {cur} \cup
      UNION { { [ok |-> TRUE, status |-> st, expiresAt |-> x] :
                  st \in {cur.status, tcmd[t2].status},
                  x  \in {cur.expiresAt, newEntry(t2).expiresAt} } :
              t2 \in RacingStores(t) }

\* A lookup whose failure is stored like a result.
AfterLookupStores(err) == "cache"

\* 1664-1668: a failed lookup returns false before the store.
AfterLookup(err) == IF err = "nil" THEN "cache" ELSE "decide"

\* 1039-1041, 1020: no sender: the handler returns and the command message
\* is deleted.  1638-1668: isAdmin answers from a cache entry that has not
\* expired, else looks the member up through retryHTTP; a failed lookup is
\* "not admin" and writes nothing.
CmdIsAdmin(t) ==
  /\ alive
  /\ tcmd[t].pc = "start"
  /\ IF tcmd[t].from = 0
     THEN /\ tcmd' = [tcmd EXCEPT ![t].pc = "done"]
          /\ deletes' = BagAdd(deletes, <<tcmd[t].chat, tcmd[t].msg>>)
     ELSE /\ deletes' = deletes
          /\ \E e \in Observations(t) :
               IF cacheFresh(e, now)
               THEN tcmd' = [tcmd EXCEPT ![t].status = e.status, ![t].seen = e,
                                         ![t].at = now, ![t].cached = TRUE,
                                         ![t].pc = "decide"]
               ELSE \E err \in {r[2] : r \in RetryResults}, st \in Statuses :
                      tcmd' = [tcmd EXCEPT
                                 ![t].status = IF err = "nil" THEN st ELSE "",
                                 ![t].seen = e, ![t].at = now,
                                 ![t].lookup = IF err = "nil" THEN "ok" ELSE "failed",
                                 ![t].pc = AfterLookup(err)]
  /\ UNCHANGED <<platformVars, userMessages, timeoutsData, tableVars, cmdn, adminCache,
                 sessionVars, welcomes, banCalls, banAttempts>>

\* 1670-1673: b.adminCache[key] = adminCacheEntry{status, now + 30 min}.
CmdCacheWrite(t) ==
  /\ alive
  /\ tcmd[t].pc = "cache"
  /\ adminCache' = MapPut(adminCache, cacheKey(t),
                          [status |-> tcmd[t].status, expiresAt |-> newEntry(t).expiresAt])
  /\ tcmd' = [tcmd EXCEPT ![t].exp = newEntry(t).expiresAt, ![t].pc = "decide"]
  /\ UNCHANGED <<platformVars, userMessages, timeoutsData, tableVars, cmdn,
                 sessionVars, effectVars>>

\* A store into the map at the same time as a read or another store of it
\* (any key): the runtime may stop the process with "fatal error: concurrent
\* map read and map write" or "concurrent map writes".
CmdCacheFatal ==
  /\ alive
  /\ \E t1, t2 \in 1..MaxCommands :
       t1 # t2 /\ storing(t1) /\ (storing(t2) \/ reading(t2))
  /\ alive' = FALSE
  /\ UNCHANGED <<platformVars, userMessages, timeoutsData, tableVars, commandVars,
                 progressStore, activeTokens, closes, sn, sess, tn, tap, un, effectVars, retry, bar, loopVars>>

\* The answer is sent, its deletion is scheduled and, back in handleUpdate,
\* the command message is deleted (1020).
CmdReplies(t, err) ==
  /\ \E ok \in SendOutcomes :
       /\ tcmd' = [tcmd EXCEPT ![t].reply = SentID(tcmd[t].chat, ok), ![t].sentAt = now,
                               ![t].timer = "armed", ![t].saveErr = err, ![t].pc = "done"]
       /\ AfterSend(tcmd[t].chat, ok)
  /\ deletes' = BagAdd(deletes, <<tcmd[t].chat, tcmd[t].msg>>)

\* 1044-1069: a sender who is not an administrator, a missing argument, a
\* text that is no number and a number outside the limits are answered and
\* change nothing.  1071: otherwise b.timeouts.Set(chat, value).
CmdDecide(t) ==
  /\ alive
  /\ tcmd[t].pc = "decide"
  /\ IF isAdminStatus(tcmd[t].status) /\ commandAccepts(tcmd[t].arg)
     THEN /\ timeoutsData' = tableWrite(timeoutsData, tcmd[t].chat,
                                        clampSeconds(atoi(tcmd[t].arg)))
          /\ tcmd' = [tcmd EXCEPT ![t].pc = "save"]
          /\ UNCHANGED <<nextMsgID, sendFails, deletes>>
     ELSE /\ CmdReplies(t, "none")
          /\ UNCHANGED timeoutsData
  /\ UNCHANGED <<now, elapsed, userMessages, tableVars, cmdn, adminCache,
                 sessionVars, welcomes, banCalls, banAttempts>>

\* 1072-1076: b.timeouts.Save(b.timeoutFile), its error dropped, then the
\* answer.
CmdSave(t) ==
  /\ alive
  /\ tcmd[t].pc = "save"
  /\ \/ timeoutFile' = SaveFile(timeoutsData) /\ CmdReplies(t, "nil")
     \/ timeoutFile' \in {timeoutFile, FileOf("empty", {})} /\ CmdReplies(t, "error")
  /\ UNCHANGED <<now, elapsed, userMessages, timeoutsData, tset, setn, rt, loadErr,
                 cmdn, adminCache, sessionVars, welcomes, banCalls, banAttempts>>

\* The time.AfterFunc of the answer fires (1046, 1055, 1064, 1073), some
\* time after it was armed.
CmdTimerFire(t) ==
  /\ alive
  /\ tcmd[t].timer = "armed"
  /\ deletes' = BagAdd(deletes, <<tcmd[t].chat, tcmd[t].reply>>)
  /\ tcmd' = [tcmd EXCEPT ![t].timer = "fired"]
  /\ UNCHANGED <<platformVars, userMessages, timeoutsData, tableVars, cmdn, adminCache,
                 sessionVars, welcomes, banCalls, banAttempts>>

CommandStep(t) ==
  \/ CmdIsAdmin(t) \/ CmdCacheWrite(t) \/ CmdDecide(t) \/ CmdSave(t) \/ CmdTimerFire(t)

\* Chats are interchangeable: the first command is sent in chat 1.
CommandArrives ==
  \E c \in Chats, from \in Senders, arg \in CommandArgs :
    (cmdn = 0 => c = 1) /\ UpdateCommand(c, from, arg)

NextCommand ==
  \/ CommandArrives
  \/ \E t \in 1..MaxCommands : CommandStep(t)
  \/ CmdCacheFatal

SpecCommand == Init /\ [][NextCommand]_vars

(***************************************************************************)
(* Panics in the handlers.  The update loop runs handleUpdate in a         *)
(* goroutine with a deferred recover (timeout.go 999-1006); handleUpdate   *)
(* calls handleTimeoutCommand and handleCallback in that goroutine, but    *)
(* starts handleJoinMessage with go (1025), which starts startProgressbar  *)
(* with go (1124), and neither function defers a recover.  A panic in a    *)
(* goroutine that recovers nowhere ends the process.                       *)
(***************************************************************************)
JoinRunning == {"greet", "progress", "register", "loop", "select", "stop",
                "stopDelete", "ban", "delPending"}
TapRunning  == {"stop", "stopDelete", "welcome"}
CmdRunning  == {"start", "cache", "decide", "save"}

panics ==
  Cardinality({s \in Sessions : sess[s].pc = "panicked"})
  + Cardinality({h \in Taps : tap[h].pc = "recovered"})
  + Cardinality({t \in 1..MaxCommands : tcmd[t].pc = "recovered"})

\* A panic in handleJoinMessage or startProgressbar: nothing recovers it.
JoinPanic(s) ==
  /\ alive
  /\ panics < MaxFaults
  /\ sess[s].pc \in JoinRunning
  /\ sess' = [sess EXCEPT ![s].pc = "panicked"]
  /\ alive' = FALSE
  /\ UNCHANGED <<platformVars, timeoutsData, tableVars, commandVars, retry, bar, loopVars,
                 progressStore, activeTokens, userMessages, closes, sn, tn, tap, un,
                 effectVars>>

\* A panic in handleCallback or in the stopProgressbar it calls: the
\* deferred function of the update's goroutine recovers it and logs it, and
\* the goroutine ends where it was.
TapPanic(h) ==
  /\ alive
  /\ panics < MaxFaults
  /\ tap[h].pc \in TapRunning
  /\ tap' = [tap EXCEPT ![h].pc = "recovered"]
  /\ UNCHANGED <<platformVars, configVars, progressStore, activeTokens, userMessages,
                 closes, sn, sess, tn, un, effectVars>>

\* A panic in handleTimeoutCommand: recovered in the same way; the delete of
\* the command message (1020) is not reached.
CmdPanic(t) ==
  /\ alive
  /\ panics < MaxFaults
  /\ tcmd[t].pc \in CmdRunning
  /\ tcmd' = [tcmd EXCEPT ![t].pc = "recovered"]
  /\ UNCHANGED <<platformVars, userMessages, timeoutsData, tableVars, cmdn, adminCache,
                 sessionVars, effectVars>>

\* One member joins, the button is tapped, an administrator sends a command.
FaultTap     == tn < OpenTaps /\ PlatformTap
FaultCommand == cmdn < MaxFaults /\ UpdateCommand(1, 1, intText(MinTimeoutSec))

NextFault ==
  \/ OpenJoin
  \/ \E s \in Sessions : CountdownStep(s)
  \/ FaultTap
  \/ \E h \in Taps : TapStep(h)
  \/ FaultCommand
  \/ \E t \in 1..MaxCommands : CommandStep(t)
  \/ \E s \in Sessions : JoinPanic(s)
  \/ \E h \in Taps : TapPanic(h)
  \/ \E t \in 1..MaxCommands : CmdPanic(t)

SpecFault == Init /\ [][NextFault]_vars

(***************************************************************************)
(* retryHTTP (timeout.go 1462-1479) called on its own, with every sequence *)
(* of results the three attempts can meet.                                 *)
(***************************************************************************)
retryRest == <<nextMsgID, timeoutsData, progressStore, activeTokens, userMessages,
               closes, now, elapsed, sendFails, sn, sess, tn, tap, un, effectVars,
               tableVars, commandVars, alive, bar, loopVars>>

\* 1463-1464: var lastErr error; i := 0.
RetryCall(outs) ==
  /\ retry.pc \in {"idle", "returned"}
  /\ retry' = [NoRetry EXCEPT !.pc = "loop", !.outs = outs]
  /\ UNCHANGED retryRest

\* 1465-1476: one round of the loop: fn is run; an error or a 429 is kept in
\* lastErr and slept on, anything else returns nil.
RetryAttempt ==
  /\ retry.pc = "loop"
  /\ retry.i < RetryLimit
  /\ LET r == retry.outs[retry.i + 1] IN
       retry' = IF attemptPasses(r)
                THEN [retry EXCEPT !.calls = @ + 1, !.ret = "nil", !.pc = "returned"]
                ELSE [retry EXCEPT !.calls = @ + 1,
                                   !.lastErr = nextLastErr(retry.lastErr, r),
                                   !.slept = @ + backoffMs(retry.i, r),
                                   !.i = @ + 1]
  /\ UNCHANGED retryRest

\* 1464, 1478: the loop condition fails: return lastErr.
RetryExhausted ==
  /\ retry.pc = "loop"
  /\ ~(retry.i < RetryLimit)
  /\ retry' = [retry EXCEPT !.ret = retry.lastErr, !.pc = "returned"]
  /\ UNCHANGED retryRest

NextRetry ==
  \/ \E outs \in [1..RetryLimit -> FnResults] : RetryCall(outs)
  \/ RetryAttempt
  \/ RetryExhausted

SpecRetry == Init /\ [][NextRetry]_vars

(***************************************************************************)
(* progressBar called as the countdown calls it (timeout.go 1177-1181):    *)
(* with the countdown length and the seconds remaining, second by second.  *)
(***************************************************************************)
barRest == <<nextMsgID, timeoutsData, progressStore, activeTokens, userMessages,
             closes, now, elapsed, sendFails, sn, sess, tn, tap, un, effectVars,
             tableVars, commandVars, alive, retry, loopVars>>

\* The small arguments, and the mantissas of the large ones: 2^(IntBits-4)
\* and 2^(IntBits-2).
SmallTotals     == -1..MaxBarTotal
SmallRemainings == 0..(MaxBarTotal + 1)
LargeMantissas  == {2 ^ (IntBits - UnitBits - 4), 2 ^ (IntBits - UnitBits - 2)}

\* A call with arguments of its own.
BarShow(unit, total, remaining) ==
  /\ bar' = [pc |-> "shown", unit |-> unit, total |-> total, remaining |-> remaining,
             out |-> progressBar(unit, total, remaining), prev |-> BarCells]
  /\ UNCHANGED barRest

\* 1177-1181: the next second of the same countdown.
BarTick ==
  /\ bar.pc = "shown"
  /\ bar.unit = 0
  /\ ~bar.out.panic
  /\ bar.remaining > 0
  /\ bar' = [bar EXCEPT !.remaining = @ - 1,
                        !.out = progressBar(bar.unit, bar.total, bar.remaining - 1),
                        !.prev = bar.out.green]
  /\ UNCHANGED barRest

NextBar ==
  \/ \E total \in SmallTotals, remaining \in SmallRemainings : BarShow(0, total, remaining)
  \/ \E total \in LargeMantissas, remaining \in LargeMantissas \cup {0} :
       BarShow(UnitBits, total, remaining)
  \/ BarTick

SpecBar == Init /\ [][NextBar]_vars

(***************************************************************************)
(* The goroutines at the level of their locks: the update loop             *)
(* (StartWithContext 977-1008), the goroutines it starts, and the sweep    *)
(* goroutine (part_001 46-53).                                             *)
(***************************************************************************)
lockRest == <<nextMsgID, timeoutsData, progressStore, activeTokens, userMessages,
              closes, now, elapsed, sendFails, sn, sess, tn, tap, un, effectVars,
              tableVars, commandVars, alive, retry, bar, poll>>

NextOp(g)  == Head(gor[g].ops)
AtOp(g, o) == gor[g].ops # <<>> /\ NextOp(g).op = o
Advance(g) == [gor EXCEPT ![g].ops = Tail(@)]

\* 985-998: getUpdates has returned update u; the loop will record it and
\* start its goroutine.
LoopPoll(u) ==
  /\ gor[LoopG].ops = <<>>
  /\ gor[LoopG].n < MaxUpdates
  /\ gor' = [gor EXCEPT ![LoopG].ops = cacheMessageOps(u) \o Go(u), ![LoopG].n = @ + 1]
  /\ UNCHANGED <<held, lockRest>>

\* part_001 46-53: the sweep ticker fires.
SweepTick ==
  /\ gor[SweepG].ops = <<>>
  /\ gor[SweepG].n < MaxSweeps
  /\ gor' = [gor EXCEPT ![SweepG].ops = CleanupOldMessagesOps, ![SweepG].n = @ + 1]
  /\ UNCHANGED <<held, lockRest>>

\* Lock() returns: the mutex was free.
Acquire(g) ==
  /\ AtOp(g, "lock")
  /\ held[NextOp(g).arg] = Free
  /\ held' = [held EXCEPT ![NextOp(g).arg] = g]
  /\ gor' = Advance(g)
  /\ UNCHANGED lockRest

\* Unlock().
Release(g) ==
  /\ AtOp(g, "unlock")
  /\ held' = [held EXCEPT ![NextOp(g).arg] = Free]
  /\ gor' = Advance(g)
  /\ UNCHANGED lockRest

\* The call through retryHTTP returns.
CallReturns(g) ==
  /\ AtOp(g, "call")
  /\ gor' = Advance(g)
  /\ UNCHANGED <<held, lockRest>>

\* 999-1006: go func(u Update) { ... b.handleUpdate(u) }(u).
Spawn(g) ==
  /\ AtOp(g, "go")
  /\ gor' = [Advance(g) EXCEPT ![gor[g].n] =
               [kind |-> NextOp(g).arg, ops |-> handleUpdateOps(NextOp(g).arg), n |-> 0]]
  /\ UNCHANGED <<held, lockRest>>

GorStep(g) == Acquire(g) \/ Release(g) \/ CallReturns(g) \/ Spawn(g)

NextLock ==
  \/ \E u \in UpdateKinds : LoopPoll(u)
  \/ SweepTick
  \/ \E g \in Goroutines : GorStep(g)

SpecLock == Init /\ [][NextLock]_vars

\* sync.Mutex hands a lock that stays contended to the goroutine waiting
\* longest (starvation mode), the calls through retryHTTP return after at
\* most three attempts of a client with a timeout, and the scheduler runs
\* every runnable goroutine.
LockFairness ==
  \A g \in Goroutines :
    /\ SF_vars(Acquire(g))
    /\ WF_vars(Release(g) \/ CallReturns(g) \/ Spawn(g))

SpecLockFair == SpecLock /\ LockFairness

(***************************************************************************)
(* Shutdown (part_001 30-63, StartWithContext 973-1009, safeGetUpdates     *)
(* 1485-1518, retryHTTP 1462-1479).  Statements take no time; the Sleeps   *)
(* take theirs, in half seconds, and a request whose context is cancelled  *)
(* fails at once.                                                          *)
(***************************************************************************)
GraceUnits     == 2   \* part_001 63: time.Sleep(time.Second)
ErrSleepUnits  == 2   \* 992: time.Sleep(1 * time.Second)
RateSleepUnits == 4   \* 1472: time.Sleep(2 * time.Second)
\* 1468: time.Sleep(time.Duration(i+1) * 500 * time.Millisecond).
BackoffUnits(i) == i + 1

shutdownRest == <<nextMsgID, timeoutsData, progressStore, activeTokens, userMessages,
                  closes, now, elapsed, sendFails, sn, sess, tn, tap, un, effectVars,
                  tableVars, commandVars, retry, bar, held, gor>>

Cancelled == poll.ctx = "cancelled"
Sleeping  == poll.loop \in {"retrySleep", "sleep"}

\* part_001 61-64: main returns when its Sleep is over.
mainMayExit == poll.grace = 0

\* part_001 34-40, 61-63: the signal arrives, cancel() is called, main
\* leaves <-ctx.Done() and starts its Sleep.
Cancel ==
  /\ alive
  /\ ~Cancelled
  /\ poll' = [poll EXCEPT !.ctx = "cancelled", !.main = "grace", !.grace = GraceUnits]
  /\ UNCHANGED <<alive, shutdownRest>>

\* part_001 63-64: main returns and the process ends with it.
MainExit ==
  /\ alive
  /\ poll.main = "grace"
  /\ mainMayExit
  /\ poll' = [poll EXCEPT !.main = "exited"]
  /\ alive' = FALSE
  /\ UNCHANGED shutdownRest

\* 977-985: the select at the top of the loop: return when the context is
\* done, else call safeGetUpdates, whose retryHTTP makes its first attempt.
LoopSelect ==
  /\ alive
  /\ poll.loop = "select"
  /\ IF Cancelled
     THEN poll' = [poll EXCEPT !.loop = "returned"]
     ELSE /\ poll.polls < MaxPolls
          /\ poll' = [poll EXCEPT !.loop = "poll", !.i = 0, !.polls = @ + 1]
  /\ UNCHANGED <<alive, shutdownRest>>

\* 1465, 1476, 996-1007: the attempt gets a response; the updates are
\* recorded and their goroutines started.
AttemptOk ==
  /\ alive
  /\ poll.loop = "poll"
  /\ ~Cancelled
  /\ poll' = [poll EXCEPT !.loop = "select"]
  /\ UNCHANGED <<alive, shutdownRest>>

\* 1465-1474: the attempt fails (r = "error"; with a cancelled context it
\* always does) or meets status 429, and retryHTTP sleeps.
AttemptFails(r) ==
  /\ alive
  /\ poll.loop = "poll"
  /\ Cancelled => r = "error"
  /\ poll' = [poll EXCEPT !.loop = "retrySleep",
                          !.timer = IF r = "429" THEN RateSleepUnits ELSE BackoffUnits(poll.i)]
  /\ UNCHANGED <<alive, shutdownRest>>

\* 1464, 1478, 986-993: the Sleep of retryHTTP is over: the next attempt, or
\* after the third one safeGetUpdates returns the error and the loop
\* returns when the context is done, else sleeps a second.
RetryWake ==
  /\ alive
  /\ poll.loop = "retrySleep"
  /\ poll.timer = 0
  /\ poll' = IF poll.i + 1 < RetryLimit THEN [poll EXCEPT !.loop = "poll", !.i = @ + 1]
             ELSE IF Cancelled THEN [poll EXCEPT !.loop = "returned"]
             ELSE [poll EXCEPT !.loop = "sleep", !.timer = ErrSleepUnits]
  /\ UNCHANGED <<alive, shutdownRest>>

\* 992-993: the second is over: continue.
SleepWake ==
  /\ alive
  /\ poll.loop = "sleep"
  /\ poll.timer = 0
  /\ poll' = [poll EXCEPT !.loop = "select"]
  /\ UNCHANGED <<alive, shutdownRest>>

\* part_001 49-51: the sweep goroutine returns on ctx.Done().
SweepStop ==
  /\ alive
  /\ Cancelled
  /\ poll.sweep = "waiting"
  /\ poll' = [poll EXCEPT !.sweep = "returned"]
  /\ UNCHANGED <<alive, shutdownRest>>

\* A statement that can run now.
Runnable ==
  /\ alive
  /\ \/ poll.loop = "select" /\ (Cancelled \/ poll.polls < MaxPolls)
     \/ poll.loop = "poll" /\ Cancelled
     \/ Sleeping /\ poll.timer = 0
     \/ Cancelled /\ poll.sweep = "waiting"
     \/ poll.main = "grace" /\ poll.grace = 0

\* Half a second passes: no statement can run, and every Sleep in progress
\* gets shorter.
HalfSecond ==
  /\ alive
  /\ ~Runnable
  /\ Sleeping \/ poll.main = "grace"
  /\ poll' = [poll EXCEPT !.timer = IF Sleeping THEN @ - 1 ELSE @,
                          !.grace = IF poll.main = "grace" THEN @ - 1 ELSE @]
  /\ UNCHANGED <<alive, shutdownRest>>

NextShutdown ==
  \/ Cancel
  \/ MainExit
  \/ LoopSelect
  \/ AttemptOk
  \/ \E r \in {"error", "429"} : AttemptFails(r)
  \/ RetryWake
  \/ SleepWake
  \/ SweepStop
  \/ HalfSecond

\* The scheduler runs every runnable goroutine and time passes.
ShutdownFairness ==
  /\ WF_vars(MainExit) /\ WF_vars(LoopSelect) /\ WF_vars(AttemptFails("error"))
  /\ WF_vars(RetryWake) /\ WF_vars(SleepWake) /\ WF_vars(SweepStop) /\ WF_vars(HalfSecond)

SpecShutdown == Init /\ [][NextShutdown]_vars /\ ShutdownFairness

(***************************************************************************)
(* Vocabulary of the properties.                                           *)
(***************************************************************************)
Started(s)    == sess[s].pc # "none"
Registered(s) == \E k \in DOMAIN progressStore : progressStore[k].stopChan = s
\* A tap handler resolved session s: its stopProgressbar call removed s's
\* record and closed s's stop channel.
ConfirmedBy(h, s) == tap[h].won /\ tap[h].sp.stopChan = s
Confirmed(s)      == \E h \in Taps : ConfirmedBy(h, s)
AllReturned ==
  /\ \A s \in Sessions : sess[s].pc \in {"none", "done"}
  /\ \A h \in Taps : tap[h].pc \in {"none", "done"}

\* C1: when a tap and the expiry of the countdown race for one session, the
\* session never gets both a welcome message and a ban call.
C1_NoWelcomeAndBan ==
  \A s \in Sessions : ~(welcomes[s] > 0 /\ banCalls[s] > 0)

\* C2: every started session ends confirmed or expired, and once every
\* goroutine has returned neither a record nor an active token is left.
C2_ResolvedAndClean ==
  AllReturned =>
    /\ \A s \in Sessions :
         Started(s) => (Confirmed(s) \/ welcomes[s] > 0 \/ banCalls[s] > 0)
    /\ progressStore = <<>>
    /\ activeTokens = <<>>

\* C3: a session confirmed while its countdown had seconds remaining never
\* gets a ban call.
C3_NoBanAfterEarlyConfirm ==
  \A s \in Sessions :
    (\E h \in Taps : ConfirmedBy(h, s) /\ tap[h].rem > 0) => banCalls[s] = 0

\* C4: a tap from a user other than the session's user, a tap whose token is
\* not the session's, and a tap on a message with no session change nothing:
\* no handler of such a tap removes a record, closes a stop channel or sends
\* a welcome message.
C4_MismatchChangesNothing ==
  \A h \in Taps :
    (tap[h].pc # "none" /\ tap[h].from # tap[h].p.userID)
      => (~tap[h].won /\ tap[h].sent = 0)

\* C5: a confirmation for a session already resolved does nothing: a session
\* gets at most one welcome message.
C5_WelcomeAtMostOnce ==
  \A s \in Sessions : welcomes[s] <= 1

\* C6: a (chat, user) pair has at most one pending session; a second join of
\* the pair while one is pending starts nothing.
C6_OnePendingPerPair ==
  \A s1, s2 \in Sessions :
    (s1 # s2 /\ Registered(s1) /\ Registered(s2))
      => ~(sess[s1].chat = sess[s2].chat /\ sess[s1].user = sess[s2].user)

C8_PendingReleasedOnConfirm ==
  \A h \in Taps, s \in Sessions :
    (ConfirmedBy(h, s) /\ tap[h].pc = "done" /\ sess[s].pc = "done" /\ banCalls[s] = 0) =>
      \A i \in 1..Len(MapGet(userMessages, sess[s].user, <<>>)) :
        LET m == userMessages[sess[s].user][i] IN
          ~(m.chat = sess[s].chat /\ m.isPending /\ ~m.isBot)

\* C9: a session that expired without a confirmation gets exactly one ban
\* call of at most RetryLimit attempts; a confirmed session gets none.
C9_BanExactlyOnceOrNever ==
  \A s \in Sessions :
    /\ Confirmed(s) => banCalls[s] = 0
    /\ (sess[s].pc = "done" /\ ~Confirmed(s) /\ sess[s].ban)
          => (banCalls[s] = 1 /\ banAttempts[s] <= RetryLimit)

\* C10: at expiry the countdown message is edited to an exclusion notice
\* before the ban call is made.
C10_ExclusionNoticeBeforeBan ==
  \A s \in Sessions :
    banCalls[s] > 0 => <<sess[s].chat, sess[s].prog, "exclusion">> \in edits

\* The ban call of session s was made and failed on every attempt.
BanFailed(s) == sess[s].banErr \notin {"none", "nil"}
\* The retained entries of a user in a chat that deletePendingMessages is for.
PendingEntries(um, chatID, userID) ==
  {m \in {MapGet(um, userID, <<>>)[i] : i \in 1..Len(MapGet(um, userID, <<>>))} :
     m.chat = chatID /\ (m.isBot \/ m.isPending)}

\* C11: when the ban call of an expiring session fails on every attempt the
\* countdown goes on: the session's record is out of the table, the user's
\* pending messages are handed to the delete call and leave the cache, and
\* neither the failed call nor the release touches the table, a stop channel
\* or another session's goroutine.
C11_BanFailureContained ==
  [][\A s \in Sessions :
       BanFailed(s)' =>
         /\ ~Registered(s)'
         /\ sess'[s].pc \in {"delPending", "done"}
         /\ sess'[s].pc = "done" => sess'[s].released
         /\ sess'[s] # sess[s] =>
              /\ UNCHANGED <<progressStore, closes, activeTokens>>
              /\ \A t \in Sessions \ {s} : sess'[t] = sess[t]
              /\ tap' = tap
              /\ sess'[s].released =>
                   /\ PendingEntries(userMessages', sess[s].chat, sess[s].user) = {}
                   /\ \A m \in PendingEntries(userMessages, sess[s].chat, sess[s].user) :
                        BagCount(deletes', <<sess[s].chat, m.id>>)
                          > BagCount(deletes, <<sess[s].chat, m.id>>)]_vars

C11_Witness ==
  \E s \in Sessions :
    /\ BanFailed(s) /\ sess[s].pc = "done" /\ sess[s].released
    /\ \E t \in Sessions \ {s} : Registered(t)

\* C12: after deletePendingMessages(chat, user) returns, every retained
\* entry of the user in that chat that was flagged pending or bot-authored
\* has been passed to the delete call, and the user's retained set is empty.
C12_ReleaseClearsSet ==
  [][\A s \in Sessions :
       (sess[s].pc = "delPending" /\ sess'[s].pc = "done") =>
         /\ \A m \in PendingEntries(userMessages, sess[s].chat, sess[s].user) :
              BagCount(deletes', <<sess[s].chat, m.id>>)
                > BagCount(deletes, <<sess[s].chat, m.id>>)
         /\ sess[s].user \notin DOMAIN userMessages']_vars

\* C13: the delete call is made exactly once for each message tied to a
\* session, never twice for the same message of a chat.
C13_DeleteOncePerMessage ==
  \A x \in DOMAIN deletes : x[2] # 0 => deletes[x] <= 1

\* The entries of a retained list, and the age test of the window.
Entries(l) == {l[i] : i \in 1..Len(l)}
InWindow(m, t) == t - m.ts <= RetentionSec

\* C14: after CleanupOldMessages returns no bucket holds an entry older than
\* the 60-second window, pending or not; the entries within the window are
\* all still there, in order, and no bucket is empty.
C14_SweepEvictsOld ==
  [][CleanupOldMessages =>
       /\ DOMAIN userMessages' \subseteq DOMAIN userMessages
       /\ \A u \in DOMAIN userMessages' :
            /\ userMessages'[u] # <<>>
            /\ \A m \in Entries(userMessages'[u]) : InWindow(m, now)
       /\ \A u \in DOMAIN userMessages :
            LET kept == SelectSeq(userMessages[u], LAMBDA m : InWindow(m, now))
            IN  IF kept = <<>> THEN u \notin DOMAIN userMessages'
                ELSE u \in DOMAIN userMessages' /\ userMessages'[u] = kept]_vars

\* The sweep has emptied the cache: the joining user's own entries never
\* leave it otherwise.
C14_Witness ==
  sn = 1 /\ elapsed = 1 /\ now = RetentionSec + 1 /\ userMessages = <<>>

\* C15: recording a message appends one entry to its author's list, flagged
\* pending exactly when the author is not a bot and some record of the
\* session table is the author's.
C15_RecordFlagsPending ==
  [][\A c \in Chats, u \in Users, isBot \in BOOLEAN :
       UpdateText(c, u, isBot) =>
         /\ u \in DOMAIN userMessages'
         /\ LET l   == userMessages'[u]
                old == MapGet(userMessages, u, <<>>)
            IN  /\ l[Len(l)] = [id |-> nextMsgID[c], chat |-> c, ts |-> now, isBot |-> isBot,
                                isPending |-> (~isBot /\ \E k \in DOMAIN progressStore :
                                                           progressStore[k].userID = u)]
                /\ SubSeq(l, 1, Len(l) - 1) = SelectSeq(old, LAMBDA m : InWindow(m, now))
         /\ \A v \in (DOMAIN userMessages \cup DOMAIN userMessages') \ {u} :
              v \in DOMAIN userMessages /\ v \in DOMAIN userMessages'
                /\ userMessages'[v] = userMessages[v]]_vars

C15_Witness ==
  \E u \in DOMAIN userMessages :
    /\ \E m \in Entries(userMessages[u]) : m.isPending /\ ~m.isBot
    /\ un > 0

\* What Get must return after Set(chat, a), in the spec's words.
ClampedTo5And600(a) == IF a < 5 THEN 5 ELSE IF a > 600 THEN 600 ELSE a
SetCallsOn(c)      == {t \in 1..MaxSets : tset[t].pc # "none" /\ tset[t].chat = c}
SetReturnedOn(c)   == {t \in 1..MaxSets : tset[t].pc = "done" /\ tset[t].chat = c}
SetReturns(t)      == tset[t].pc = "write" /\ tset'[t].pc = "done"
EntryChanged(c) ==
  \/ (c \in DOMAIN timeoutsData) # (c \in DOMAIN timeoutsData')
  \/ c \in DOMAIN timeoutsData /\ c \in DOMAIN timeoutsData'
       /\ timeoutsData[c] # timeoutsData'[c]

\* C16: after Set(chat, s) Get(chat) is 5 for s < 5, 600 for s > 600 and s
\* otherwise, and every other chat reads as before; a chat that was never
\* set, on a table that loaded nothing, reads the default 60.
C16_SetClampsGetDefaults ==
  [][/\ \A t \in 1..MaxSets :
          SetReturns(t) =>
            /\ TimeoutsGet(timeoutsData', tset[t].chat) = ClampedTo5And600(tset[t].arg)
            /\ \A c \in TableChats \ {tset[t].chat} : ~EntryChanged(c)
     /\ \A c \in TableChats :
          (loadErr' = "none" /\ SetReturnedOn(c)' = {})
             => TimeoutsGet(timeoutsData', c) = 60]_vars

C16_Witness ==
  \E t1, t2 \in 1..MaxSets :
    /\ tset[t1].pc = "done" /\ tset[t1].arg = 999
    /\ tset[t2].pc = "done" /\ tset[t2].arg = 4
    /\ tset[t1].chat # tset[t2].chat
    /\ timeoutsData[tset[t1].chat] = 600 /\ timeoutsData[tset[t2].chat] = 5

\* C17: with Set calls running concurrently on one chat, a chat's entry only
\* ever changes to the whole value of one Set call (or by Delete or Load);
\* a Get at any moment on a table that loaded nothing returns the default or
\* the value of a Set call that was made, and once all Set calls on a chat
\* have returned its entry holds the value of one of them.
C17_ConcurrentSetWholeValue ==
  [][\A c \in TableChats :
       /\ EntryChanged(c) =>
            \/ \E t \in 1..MaxSets :
                 /\ SetReturns(t) /\ tset[t].chat = c /\ c \in DOMAIN timeoutsData'
                 /\ timeoutsData'[c] = ClampedTo5And600(tset[t].arg)
            \/ c \in DOMAIN timeoutsData /\ c \notin DOMAIN timeoutsData'
                 /\ \A t \in 1..MaxSets : tset'[t] = tset[t]
            \/ loadErr = "none" /\ loadErr' # "none"
       /\ loadErr' = "none" =>
            TimeoutsGet(timeoutsData', c)
              \in {60} \cup {ClampedTo5And600(tset'[t].arg) : t \in SetCallsOn(c)'}
       /\ (c \in DOMAIN timeoutsData' /\ SetCallsOn(c)' # {}
             /\ SetCallsOn(c)' = SetReturnedOn(c)')
            => timeoutsData'[c]
                 \in {ClampedTo5And600(tset'[t].arg) : t \in SetReturnedOn(c)'}]_vars

C17_Witness ==
  \E t1, t2 \in 1..MaxSets :
    /\ tset[t1].pc = "done" /\ tset[t1].arg = 42
    /\ tset[t2].pc = "done" /\ tset[t2].arg = 999
    /\ tset[t1].chat = 1 /\ tset[t2].chat = 1
    /\ loadErr = "none"
    /\ 1 \in DOMAIN timeoutsData /\ timeoutsData[1] = 42

\* C18: in every reachable state Get(chat) is within [5, 600] for every chat.
C18_GetWithinRange ==
  \A c \in TableChats :
    TimeoutsGet(timeoutsData, c) >= 5 /\ TimeoutsGet(timeoutsData, c) <= 600

\* C19: a Save that returned no error followed by Load into a fresh table is
\* a round trip: Load returns no error and Get agrees on every chat.
C19_SaveLoadRoundTrip ==
  rt.loadErr # "none" =>
    /\ rt.saveErr = "nil"
    /\ rt.loadErr = "nil"
    /\ \A c \in TableChats :
         TimeoutsGet(rt.loaded, c) = TimeoutsGet(rt.saved, c)

C19_Witness ==
  /\ rt.loadErr = "nil"
  /\ DOMAIN rt.saved = {-12, 2}
  /\ rt.saved[-12] = 600 /\ rt.saved[2] = 42
  /\ rt.loaded = rt.saved

\* The texts that denote an integer of [5, 600], and the integer denoted.
ArgDenotes(txt, v) == txt = intText(v) \/ txt = <<"+">> \o intText(v)
ValidArgTexts == {intText(v) : v \in 5..600} \cup {<<"+">> \o intText(v) : v \in 5..600}
Denoted == [txt \in ValidArgTexts |-> CHOOSE v \in 5..600 : ArgDenotes(txt, v)]
\* Handler t takes a step (not the arrival of its command).
CmdActs(t) == tcmd[t].pc # "none" /\ tcmd'[t] # tcmd[t]
ValidCommand(t) ==
  /\ tcmd[t].status \in {"creator", "administrator"}
  /\ tcmd[t].arg \in ValidArgTexts

\* C20: a chat's timeout changes only by the handler of a /timeout command
\* in that chat whose sender isAdmin classified as administrator and whose
\* argument is an integer of [5, 600], and then it becomes that integer; the
\* handler of any other command changes neither the table nor the file.
C20_OnlyValidAdminCommandSets ==
  [][/\ \A c \in Chats :
          EntryChanged(c) =>
            \E t \in 1..MaxCommands :
              /\ CmdActs(t) /\ tcmd[t].chat = c /\ ValidCommand(t)
              /\ c \in DOMAIN timeoutsData'
              /\ timeoutsData'[c] = Denoted[tcmd[t].arg]
     /\ timeoutFile' # timeoutFile =>
          \E t \in 1..MaxCommands : CmdActs(t) /\ ValidCommand(t)
     /\ \A t \in 1..MaxCommands :
          (tcmd[t].pc = "decide" /\ tcmd'[t].pc # "decide" /\ ValidCommand(t))
            => TimeoutsGet(timeoutsData', tcmd[t].chat) = Denoted[tcmd[t].arg]]_vars

C20_Witness ==
  \E t1, t2 \in 1..MaxCommands :
    /\ tcmd[t1].pc = "done" /\ tcmd[t1].status = "administrator"
    /\ tcmd[t1].arg = <<"+", "4", "2">>
    /\ timeoutsData[tcmd[t1].chat] = 42
    /\ timeoutFile = SaveFile(timeoutsData)
    /\ tcmd[t2].pc = "done" /\ tcmd[t2].status = "creator"
    /\ tcmd[t2].arg = intText(601)

\* C21: when no /timeout handler is between its Set and its Save and no
\* write of the file has failed, the file holds the table: loading it into a
\* fresh table gives the in-memory mapping, so no completed Set is missing.
C21_PersistedAfterEveryMutation ==
  ( /\ \A t \in 1..MaxCommands : tcmd[t].pc # "save" /\ tcmd[t].saveErr # "error" )
    => /\ Load(<<>>, timeoutFile).err = "nil"
       /\ Load(<<>>, timeoutFile).data = timeoutsData

\* Two handlers have set different values for the same chat and returned.
C21_Witness ==
  \E t1, t2 \in 1..MaxCommands :
    /\ t1 # t2
    /\ tcmd[t1].pc = "done" /\ tcmd[t2].pc = "done"
    /\ tcmd[t1].saveErr = "nil" /\ tcmd[t2].saveErr = "nil"
    /\ tcmd[t1].chat = tcmd[t2].chat
    /\ tcmd[t1].arg = intText(5) /\ tcmd[t2].arg = intText(600)
    /\ timeoutsData[tcmd[t1].chat] \in {5, 600}

\* isAdmin of handler t has returned.
IsAdminReturned(t) == tcmd[t].from # 0 /\ tcmd[t].pc \in {"decide", "save", "done"}
\* Handler t2 looked the member of t's key up and stored entry e, or is
\* storing it.
StoredBy(t2, t, e) ==
  /\ cacheKey(t2) = cacheKey(t)
  /\ tcmd[t2].lookup = "ok"
  /\ tcmd[t2].status = e.status
  /\ \/ tcmd[t2].exp = e.expiresAt
     \/ storing(t2) /\ newEntry(t2).expiresAt = e.expiresAt

\* C22: an isAdmin call that answered from the cache made no lookup and
\* used an entry that a lookup for the same chat and user had stored and
\* that had not expired at the time of the read; a call that did not answer
\* from the cache found no such entry and made one lookup.
C22_CacheUsedOnlyWhileFresh ==
  \A t \in 1..MaxCommands :
    IsAdminReturned(t) =>
      IF tcmd[t].cached
      THEN /\ tcmd[t].lookup = "none"
           /\ tcmd[t].at < tcmd[t].seen.expiresAt
           /\ \E t2 \in 1..MaxCommands \ {t} : StoredBy(t2, t, tcmd[t].seen)
      ELSE /\ tcmd[t].lookup \in {"ok", "failed"}
           /\ ~(tcmd[t].seen.ok /\ tcmd[t].at < tcmd[t].seen.expiresAt)

C27_CacheAccessExclusive ==
  ~ \E t1, t2 \in 1..MaxCommands :
      /\ alive
      /\ t1 # t2
      /\ storing(t1)
      /\ (storing(t2) \/ reading(t2))

Returned == retry.pc = "returned"
\* The attempts that met a passing result.
PassingAttempts == {k \in 1..RetryLimit : retry.outs[k] = "ok"}

\* C24: retryHTTP runs fn at least once and at most three times; it returns
\* nil right after the first attempt that passes and runs fn no more; when
\* no attempt passes it has made three and returns the third one's error,
\* which is not nil.
C24_AttemptsAndResult ==
  /\ retry.calls <= 3
  /\ Returned =>
       /\ retry.calls >= 1
       /\ IF PassingAttempts # {}
          THEN /\ retry.ret = "nil"
               /\ retry.calls \in PassingAttempts
               /\ \A k \in PassingAttempts : retry.calls <= k
          ELSE /\ retry.calls = 3
               /\ retry.ret # "nil"
               /\ retry.ret = (IF retry.outs[3] = "429" THEN "429 rate limit"
                               ELSE retry.outs[3])

\* Three attempts failed with an error, the last one differently.
C24_Witness ==
  /\ Returned
  /\ retry.outs = <<"timeout", "timeout", "refused">>
  /\ retry.ret = "refused"

\* C25: an attempt answered with status 429 is never the one retryHTTP
\* returns nil on; it is counted and followed by another attempt while the
\* budget of three lasts; a pass after it returns nil, and three 429
\* answers return the rate-limit error.
C25_RateLimitIsTransient ==
  /\ (retry.pc = "loop" /\ retry.calls > 0 /\ retry.outs[retry.calls] = "429")
       => retry.i = retry.calls /\ retry.lastErr = "429 rate limit"
  /\ Returned =>
       /\ retry.ret = "nil" => retry.outs[retry.calls] # "429"
       /\ \A k \in 1..2 :
            (retry.outs[k] = "429" /\ retry.calls >= k) => retry.calls > k
       /\ (\E k \in 1..2 : retry.outs[k] = "429" /\ retry.outs[k + 1] = "ok"
                            /\ \A j \in 1..k : retry.outs[j] # "ok")
            => retry.ret = "nil"
       /\ (\A k \in 1..3 : retry.outs[k] = "429")
            => retry.calls = 3 /\ retry.ret = "429 rate limit"

\* Two rate-limited attempts, then a pass.
C25_Witness ==
  /\ Returned
  /\ retry.outs = <<"429", "429", "ok">>
  /\ retry.calls = 3
  /\ retry.ret = "nil"
  /\ retry.slept = 4000

\* C28: a tap resolves a session only when the tapping user is the user
\* stored in the session's record and the tapped message is in the
\* session's chat.
C28_TapMatchesSessionRecord ==
  \A h \in Taps :
    tap[h].won =>
      /\ tap[h].from = tap[h].sp.userID
      /\ tap[h].chat = sess[tap[h].sp.stopChan].chat

\* C30: the stop channel of a session is closed at most once, whatever
\* taps and expiry do.
C30_StopClosedAtMostOnce == \A s \in Sessions : closes[s] <= 1

\* Two tap handlers for the same session and the countdown's own expiry
\* path have all been through stopProgressbar.
C30_Witness ==
  \E s \in Sessions, h1, h2 \in Taps :
    /\ h1 # h2
    /\ ConfirmedBy(h1, s)
    /\ tap[h2].p.stopChan = s /\ tap[h2].pc = "done" /\ ~tap[h2].won
    /\ tap[h1].pc = "done"
    /\ sess[s].pc = "done"
    /\ closes[s] = 1

\* The green cells the documented bar has: min(8, floor(remaining * 8 / total)),
\* in the integers (the unit of the two arguments cancels).
GreenExpected(total, remaining) ==
  IF total <= 0 THEN 0
  ELSE LET f == (remaining * 8) \div total IN IF f > 8 THEN 8 ELSE f

\* C29: progressBar returns a bar of exactly 8 cells, of which
\* min(8, floor(remaining * 8 / total)) are green (none when total <= 0)
\* and the others black, and along a countdown the green cells never grow.
C29_BarHasEightCells ==
  bar.pc = "shown" =>
    /\ ~bar.out.panic
    /\ bar.out.black + bar.out.green = 8
    /\ bar.out.green = GreenExpected(bar.total, bar.remaining)
    /\ bar.out.green <= bar.prev

\* Session s was taken out of the table by a handler that has ended, the
\* countdown has returned, and the prompt was never deleted.
HalfResolved(s) ==
  /\ closes[s] > 0
  /\ sess[s].pc = "done"
  /\ \A h \in Taps : tap[h].pc \notin TapRunning
  /\ sess[s].greet # 0
  /\ BagCount(deletes, <<sess[s].chat, sess[s].greet>>) = 0

\* C26: a panic in a handler does not end the process, and leaves no
\* session out of the table without its terminal effects.
C26_PanicIsIsolated ==
  /\ alive
  /\ \A s \in Sessions : ~HalfResolved(s)

\* The countdown of session s has taken the expiry branch of its select
\* (1198-1199): the session is to be banned.
ExpiryBegun(s) == sess[s].ban
\* The step in which handleCallback lets handler h's tap through (1297).
TapAccepted(h) == tap[h].pc = "none" /\ tap'[h].pc = "stop"
\* The step in which the ban call is made for session s.
BanInvoked(s)  == banCalls'[s] > banCalls[s]

\* C31: a session's record leaves the table as soon as the session is
\* terminal: when the ban call is made for a session its record is not in
\* the table, and no tap is let through for a session whose countdown has
\* taken the expiry branch.
C31_RecordGoneWhenExpiryBegins ==
  [][ /\ \A s \in Sessions : BanInvoked(s) => ~Registered(s)
      /\ \A h \in Taps : TapAccepted(h) => ~ExpiryBegun(tap'[h].p.stopChan) ]_vars

\* The countdown of session s is in its loop before and after the step.
InLoop(s)   == sess[s].pc = "loop" /\ sess'[s].pc = "loop"
\* The step in which session s reads the chat's timeout (1169-1170).
ReadsTimeout(s) == sess[s].pc = "register" /\ sess'[s].pc = "loop"
\* The step is a tick of session s.
Ticks(s)    == sess'[s].ticks = sess[s].ticks + 1

\* C32: remaining starts at the chat's timeout, read once when the session
\* starts; a tick takes exactly 1 from it and it never grows while the
\* session is open; the ban call is made only after exactly as many ticks
\* as the timeout read, whatever the table holds by then.
C32_CountdownCountsTheTimeoutRead ==
  [][ \A s \in Sessions :
        /\ ReadsTimeout(s) =>
             /\ sess'[s].timeout = TimeoutsGet(timeoutsData, sess[s].chat)
             /\ sess'[s].remaining = sess'[s].timeout
             /\ sess'[s].ticks = 0
        /\ (~ReadsTimeout(s) /\ sess[s].pc # "none") => sess'[s].timeout = sess[s].timeout
        /\ InLoop(s) => sess'[s].remaining <= sess[s].remaining
        /\ Ticks(s) => sess'[s].remaining = sess[s].remaining - 1
        /\ BanInvoked(s) => sess[s].ticks = sess[s].timeout ]_vars

\* The step in which session s stores its record (1156-1164).
Registers(s) == sess[s].pc = "register" /\ sess'[s].pc = "loop"
\* The sessions whose record is in the table.
RegisteredSessions == {progressStore[k].stopChan : k \in DOMAIN progressStore}
\* The step in which the countdown of s, or tap handler h, takes a record
\* out of the table and closes its channel (1238-1242).
CountdownRemoves(s) == sess[s].pc = "stop" /\ sess'[s].pc = "stopDelete"
TapRemoves(h)       == tap[h].pc = "stop" /\ tap'[h].pc = "stopDelete"

\* C33: sessions do not share or disturb each other's record: a
\* registration leaves every other registered session registered, the
\* countdown of a session removes and closes only that session's record, and
\* a tap handler only the record its tap was checked against.
C33_SessionsKeepTheirOwnRecord ==
  [][ /\ \A s \in Sessions :
           /\ Registers(s) =>
                \A s2 \in RegisteredSessions \ {s} : \E k \in DOMAIN progressStore' :
                  progressStore'[k].stopChan = s2
           /\ CountdownRemoves(s) => sess'[s].sp.stopChan = s
      /\ \A h \in Taps : TapRemoves(h) => tap'[h].sp.stopChan = tap[h].p.stopChan ]_vars

\* Goroutine g is at a Lock() call of a mutex that another goroutine holds.
Waiting(g)   == AtOp(g, "lock") /\ held[NextOp(g).arg] # Free
\* The goroutine that g waits for.
HolderFor(g) == held[NextOp(g).arg]
\* Goroutine g is inside a call through retryHTTP.
InCall(g)    == AtOp(g, "call")

\* C34: the update loop never waits at a lock whose holder is inside an
\* external delete, send, edit or ban call.
C34_LoopNeverWaitsOnExternalCall ==
  ~(Waiting(LoopG) /\ InCall(HolderFor(LoopG)))

\* The retained list of user u (empty when the user has no bucket).
Retained(um, u) == MapGet(um, u, <<>>)
Ordered(l)      == \A i, j \in 1..Len(l) : i < j => l[i].ts <= l[j].ts
IsSuffix(a, b)  == \E k \in 0..Len(b) : a = SubSeq(b, k + 1, Len(b))
\* The step is a release (deleteUserMessagesFiltered), which removes by
\* chat and flag, not by age.
ReleaseStep     == \E s \in Sessions : sess[s].pc = "delPending" /\ sess'[s].pc = "done"

\* C35: every user's retained list is ordered by non-decreasing timestamp;
\* a step other than a release leaves of each list a suffix, with at most
\* one new entry appended at its end.
C35_RetainedInArrivalOrder ==
  /\ [](\A u \in Users : Ordered(Retained(userMessages, u)))
  /\ [][ ~ReleaseStep =>
           \A u \in Users :
             LET old == Retained(userMessages, u)
                 new == Retained(userMessages', u)
             IN  \/ IsSuffix(new, old)
                 \/ new # <<>> /\ IsSuffix(new, Append(old, new[Len(new)])) ]_vars

\* A list that holds the entries of two moments: the member's own join
\* message and prompt, and a text message recorded a retention window later.
C35_Witness ==
  \E u \in Users :
    LET l == Retained(userMessages, u)
    IN  /\ Len(l) >= 3
        /\ l[1].ts < l[Len(l)].ts
        /\ ~l[Len(l)].isBot

\* The order in which the code nests its mutexes: only cacheMessage holds
\* one (muMessages) while it takes another (progressStore.mu).
LockRank(l) == IF l = "muMessages" THEN 1 ELSE IF l = "progressStore.mu" THEN 2 ELSE 3
HeldBy(g)   == {l \in Locks : held[l] = g}
\* Goroutine g is at the Lock() call of mutex l.
Requests(g, l) == AtOp(g, "lock") /\ NextOp(g).arg = l
Unfinished     == {g \in Goroutines : gor[g].ops # <<>>}

\* C36: the mutexes are taken in one order, in no state do all unfinished
\* goroutines wait for a lock, and a goroutine at a Lock() call gets the
\* lock.
C36_LocksAcyclicAndGranted ==
  /\ [][ \A g \in Goroutines, l \in Locks :
           (held[l] # g /\ held'[l] = g) => \A l2 \in HeldBy(g) : LockRank(l2) < LockRank(l) ]_vars
  /\ [](Unfinished # {} => \E g \in Unfinished : ~Waiting(g))
  /\ \A g \in Goroutines, l \in Locks : Requests(g, l) ~> (held[l] = g)

\* The update loop, inside muMessages, waits for progressStore.mu, and
\* another goroutine waits for the loop's muMessages.
C36_Witness ==
  /\ held["muMessages"] = LoopG
  /\ Requests(LoopG, "progressStore.mu") /\ Waiting(LoopG)
  /\ \E g \in Goroutines \ {LoopG} : Requests(g, "muMessages")

\* The prompt of session s is in the chat and the session is open: neither
\* a tap nor the countdown has ended it.
PromptOpen(s) ==
  /\ sess[s].greet # 0
  /\ \/ sess[s].pc \in {"progress", "register"}
     \/ sess[s].pc = "loop" /\ sess[s].remaining > 0
  /\ closes[s] = 0
\* handleCallback lets through the tap of the session's user that carries
\* the payload of the session's button, and finds the session's record.
RightTapConfirms(s) ==
  \E p \in CallbackFinds(progressStore, sess[s].greet) :
    /\ CallbackAccepts(p, sess[s].user, "click", sess[s].user, s)
    /\ p.stopChan = s

\* C37: while the prompt of a session is in the chat and the session is
\* open, the tap of its user with its token is let through and confirms it,
\* also before the session is in the table.
C37_RightTapAlwaysConfirms ==
  \A s \in Sessions : PromptOpen(s) => RightTapConfirms(s)

\* User u has a session in the table that was started in chat c.
PendingIn(c, u) ==
  \E s \in RegisteredSessions : sess[s].user = u /\ sess[s].chat = c

\* C38: a message is recorded as pending only when its author has a session
\* in the table in the chat of the message.
C38_PendingOnlyInTheSessionsChat ==
  [][\A c \in Chats, u \in Users, isBot \in BOOLEAN :
       UpdateText(c, u, isBot) =>
         LET l == userMessages'[u]
         IN  l[Len(l)].isPending => PendingIn(c, u)]_vars

\* C39: once the context is cancelled the polling loop returns and the
\* sweep goroutine returns; from then on safeGetUpdates is not called again,
\* and the poll in flight makes at most the attempts retryHTTP allows.
C39_ShutdownStopsPolling ==
  /\ Cancelled ~> (poll.loop = "returned")
  /\ Cancelled ~> (poll.sweep = "returned")
  /\ [][Cancelled => poll'.polls = poll.polls]_vars
  /\ [](poll.i < RetryLimit)

=============================================================================
